---- MODULE Spec2Model ----
(***************************************************************************)
(* Canvas-LMS-MCP: the HTTP transport (src/src/transports/http.ts), the    *)
(* JSON-RPC dispatcher (src/src/rpc.ts, src/src/lib/jsonRpc.ts), the       *)
(* bootstrap configuration (src/src/index.ts) and the Canvas client        *)
(* (src/unnamed/part_001) as one state machine.                            *)
(*                                                                         *)
(* Ten specifications share the variables:                                *)
(*   Spec        - POST /mcp through the admission gates and the dispatcher*)
(*   SpecLimiter - the gates over time, two clients, every configuration   *)
(*   SpecRpc     - handleRpc called directly with string or object bodies  *)
(*   SpecClient  - performRequest of the Canvas client, attempt by attempt *)
(*   SpecCourses - listCourses and getCurrentUser of the Canvas client     *)
(*   SpecStream  - GET /mcp/stream, heartbeats, disconnects and server.close*)
(*   SpecBurst   - one client's calls through the limiter, with their times *)
(*   SpecConcurrent - POST /mcp calls in flight together, step by step      *)
(*   SpecTimers  - performRequest of two callers, with the attempts' timers *)
(*   SpecCoursesLive - listCourses where every fetch and delay completes    *)
(*                                                                         *)
(* Record constructors list their fields in one fixed order throughout,    *)
(* the order in which the names first occur in this module, so that every  *)
(* record is built in the order TLC keeps it in.                           *)
(***************************************************************************)
EXTENDS Integers, Sequences, FiniteSets, TLC

VARIABLES
    cfg,        \* the options bootstrap derives from the environment
    now,        \* Date.now(), in ms
    buckets,    \* createRateLimitMiddleware's Map<key, Bucket>
    win,        \* history: per client, the window the client is in and its calls
    toolRegistry, \* rpc.ts toolRegistry: method -> tool definition
    toolsRegistry, \* tools/index.ts toolRegistry: method -> tool definition
    last,       \* the last call handled and what was answered
    rq,         \* the Canvas client's performRequest in progress
    lc,         \* the Canvas client's listCourses in progress and its upstream
    sse,        \* the HTTP server (listening or closed) and its SSE streams
    inflight,   \* per client, the POST /mcp calls received and not yet answered
    callers     \* per caller of the Canvas client, its performRequest in progress

vars == <<cfg, now, buckets, win, toolRegistry, toolsRegistry, last, rq, lc, sse, inflight,
          callers>>

----------------------------------------------------------------------------
(* Bounds of the model *)

\* the clock runs over 0, 500, ..., 500 * MaxTicks ms
MaxTicks == 4
\* maxRequests is drawn from 1..MaxLimit
MaxLimit == 2
\* maxRetries is drawn from 0..MaxRetriesBound
MaxRetriesBound == 2

----------------------------------------------------------------------------
(* JSON values.  Every value is a tagged record so that values of different *)
(* JavaScript types can be compared.                                        *)

Undefined == [t |-> "undefined", v |-> ""]
JNull == [t |-> "null", v |-> ""]
Str(s) == [t |-> "string", v |-> s]
Num(s) == [t |-> "number", v |-> s]
Obj(s) == [t |-> "object", v |-> s]
Bool(s) == [t |-> "boolean", v |-> s]

JSON_RPC_VERSION == Str("2.0")

\* A decoded payload: an object with the four envelope members (Undefined when
\* the member is missing), an array, or a primitive.
Payload(k, j, m, p, i) == [kind |-> k, jsonrpc |-> j, method |-> m, params |-> p, id |-> i]
ArrayPayload == Payload("array", Undefined, Undefined, Undefined, Undefined)
PrimitivePayload == Payload("primitive", Undefined, Undefined, Undefined, Undefined)
NullPayload == Payload("null", Undefined, Undefined, Undefined, Undefined)

\* JSON.parse of a text: the text either denotes a payload or is malformed.
Text(okay, p) == [wellFormed |-> okay, denotes |-> p]
Garbage == Text(FALSE, NullPayload)

JSONParse(text) ==
    IF text.wellFormed THEN [ok |-> TRUE, value |-> text.denotes]
    ELSE [ok |-> FALSE, value |-> NullPayload]

----------------------------------------------------------------------------
(* src/src/lib/jsonRpc.ts *)

NoData == [kind |-> "undefined", value |-> "", message |-> "", stack |-> ""]
NoError == [message |-> <<>>, present |-> FALSE, code |-> 0, data |-> NoData]

\* handleRpc's null: no response
NoResponse ==
    [jsonrpc |-> "none", id |-> JNull, hasResult |-> FALSE, result |-> Undefined, error |-> NoError]

createErrorResponse(id, code, message, data) ==
    [jsonrpc |-> "2.0", id |-> id, hasResult |-> FALSE, result |-> Undefined,
     error |-> [message |-> message, present |-> TRUE, code |-> code, data |-> data]]

createResultResponse(id, result) ==
    [jsonrpc |-> "2.0", id |-> id, hasResult |-> TRUE, result |-> result, error |-> NoError]

isJSONRPCRequest(candidate) ==
    /\ candidate.kind \in {"object", "array"}
    /\ candidate.jsonrpc = JSON_RPC_VERSION
    /\ candidate.method.t = "string"
    /\ candidate.id.t \in {"undefined", "string", "number", "null"}

----------------------------------------------------------------------------
(* src/src/rpc.ts *)

\* variant: the schema without the min(1) constraint on method
jsonRpcRequestSchemaAnyMethod(payload) ==
    /\ payload.kind = "object"
    /\ payload.jsonrpc = JSON_RPC_VERSION
    /\ payload.method.t = "string"
    /\ payload.id.t \in {"undefined", "string", "number", "null"}

\* jsonRpcRequestSchema.safeParse(payload).success
jsonRpcRequestSchema(payload) ==
    /\ payload.kind = "object"
    /\ payload.jsonrpc = JSON_RPC_VERSION
    /\ payload.method.t = "string"
    /\ payload.method.v # ""
    /\ payload.id.t \in {"undefined", "string", "number", "null"}

\* The tool definitions a caller may register: a params schema and a handler.
\* The schema is z.object({}).optional(), as of the built-in system.ping:
\* undefined and objects pass, and unknown keys are stripped from the data.
Methods == {"ping"}
Handlers == {"h1", "h2"}
NoTool == [registered |-> FALSE, schema |-> "", handler |-> ""]
ToolDefinition(h) == [registered |-> TRUE, schema |-> "emptyObject", handler |-> h]

ZodError == [kind |-> "zodFlatten", value |-> "", message |-> "", stack |-> ""]

\* variant: the params are handed on as they came
safeParsePassthrough(schema, params) ==
    IF params.t = "undefined" THEN [data |-> Undefined, success |-> TRUE]
    ELSE IF params.t = "object" THEN [data |-> params, success |-> TRUE]
    ELSE [data |-> Undefined, success |-> FALSE]

\* tool.schema.safeParse(request.params)
safeParse(schema, params) ==
    IF params.t = "undefined" THEN [data |-> Undefined, success |-> TRUE]
    ELSE IF params.t = "object" THEN [data |-> Obj("{}"), success |-> TRUE]
    ELSE [data |-> Undefined, success |-> FALSE]

\* What a handler does when it is invoked: it returns a value (possibly
\* undefined) or throws an Error or some other value.
Returns(v) == [value |-> v, message |-> "", stack |-> "", throws |-> FALSE, isError |-> FALSE]
ThrowsError(m, s) == [value |-> Undefined, message |-> m, stack |-> s, throws |-> TRUE, isError |-> TRUE]
ThrowsValue(v) == [value |-> v, message |-> "", stack |-> "", throws |-> TRUE, isError |-> FALSE]
HandlerOutcomes ==
    { Returns(Obj("{ok:true}")), Returns(Undefined),
      ThrowsError("E1", "at h (a.ts:1)"), ThrowsError("E2", "at h (b.ts:2)"),
      ThrowsValue(Str("V1")) }

\* the data member of the internal-error response built in the catch clause
ThrownData(out) ==
    IF out.isError
    THEN [kind |-> "error", value |-> "", message |-> out.message, stack |-> out.stack]
    ELSE [kind |-> "unknown", value |-> out.value.v, message |-> "Unknown error", stack |-> ""]

NotInvoked == [response |-> NoResponse, invoked |-> FALSE, arg |-> Undefined]

\* variant: every request is answered, notifications included
shouldRespondAlways(request) == TRUE

\* const shouldRespond = request.id !== undefined
shouldRespond(request) == request.id.t # "undefined"

\* dispatchRequest(request): the response (NoResponse for null), whether the
\* handler ran and with which params.  out is what the handler does if it runs.
dispatchRequest(request, registry, out) ==
    LET tool == IF request.method.v \in DOMAIN registry
                THEN registry[request.method.v] ELSE NoTool
        id == IF request.id.t = "undefined" THEN JNull ELSE request.id
        parsedParams == safeParse(tool.schema, request.params)
    IN  IF ~tool.registered
        THEN [NotInvoked EXCEPT !.response =
                IF shouldRespond(request)
                THEN createErrorResponse(id, -32601,
                        <<"Method '", request.method.v, "' was not found.">>, NoData)
                ELSE NoResponse]
        ELSE IF ~parsedParams.success
        THEN [NotInvoked EXCEPT !.response =
                IF shouldRespond(request)
                THEN createErrorResponse(id, -32602, <<"Invalid params">>, ZodError)
                ELSE NoResponse]
        ELSE [response |->
                IF ~out.throws
                THEN (IF shouldRespond(request) THEN createResultResponse(id, out.value) ELSE NoResponse)
                ELSE (IF ~shouldRespond(request) THEN NoResponse
                      ELSE createErrorResponse(id, -32603, <<"Internal error">>, ThrownData(out))),
              invoked |-> TRUE,
              arg |-> parsedParams.data]

\* A body handed to handleRpc: a string, a Buffer, or an already decoded value.
StringBody(text) == [text |-> text, value |-> NullPayload, form |-> "string"]
BufferBody(text) == [text |-> text, value |-> NullPayload, form |-> "buffer"]
ValueBody(p) == [text |-> Garbage, value |-> p, form |-> "value"]

normaliseBody(body) ==
    IF body.form \in {"string", "buffer"} THEN JSONParse(body.text)
    ELSE [ok |-> TRUE, value |-> body.value]

ParseErrorData == [kind |-> "parse", value |-> "", message |-> "SyntaxError", stack |-> ""]

handleRpcImpl(body, registry, out) ==
    LET payload == normaliseBody(body)
    IN  IF ~payload.ok
        THEN [NotInvoked EXCEPT !.response =
                createErrorResponse(JNull, -32700, <<"Parse error">>, ParseErrorData)]
        ELSE IF ~jsonRpcRequestSchema(payload.value)
        THEN [NotInvoked EXCEPT !.response =
                createErrorResponse(JNull, -32600, <<"Invalid Request">>, ZodError)]
        ELSE dispatchRequest(payload.value, registry, out)

\* handleRpc.registerTool: throws when the method is already registered
registerToolThrows(registry, method) == registry[method].registered

registerTool(registry, method, h) ==
    IF registerToolThrows(registry, method) THEN registry
    ELSE [registry EXCEPT ![method] = ToolDefinition(h)]

----------------------------------------------------------------------------
(* src/src/tools/index.ts: the registry of tool definitions this module     *)
(* exports, with system.ping registered when the module is loaded           *)

ToolNames == {"system.ping", "ping"}
NoDefinition == [registered |-> FALSE, handler |-> "", name |-> ""]
Definition(name, h) == [registered |-> TRUE, handler |-> h, name |-> name]
systemPing == Definition("system.ping", "systemPing")

\* registerTool(method, definition): toolRegistry.set(method, definition)
registerToolDefinition(registry, method, definition) ==
    [registry EXCEPT ![method] = definition]

----------------------------------------------------------------------------
(* src/src/index.ts: bootstrap *)

Clock == {500 * k : k \in 0..MaxTicks}
Windows == {1000, 1500}
Clients == {"10.0.0.1", "10.0.0.2"}

\* MCP_TRANSPORT_SECRET (trimmed, non-empty when set) and its header name
TransportSecret == "super-secret"
TransportSecretHeader == "X-Mcp-Transport-Secret"

\* The environment bootstrap reads.  parsePositiveIntegerEnv makes windowMs and
\* maxRequests positive; a secret that is set is a non-empty string.
AllConfigs ==
    { [rateLimitEnabled |-> e, rateLimitBypass |-> b, windowMs |-> w, maxRequests |-> m,
       transportSecretSet |-> s, transportSecretBypass |-> sb] :
        e \in BOOLEAN, b \in BOOLEAN, w \in Windows, m \in 1..MaxLimit,
        s \in BOOLEAN, sb \in BOOLEAN }
\* (the secret's bypass flag is read only when a secret is set)
Configs == { c \in AllConfigs : c.transportSecretBypass => c.transportSecretSet }

NoRateLimit == [present |-> FALSE, windowMs |-> 0, maxRequests |-> 0]
NoSharedSecret == [present |-> FALSE, secret |-> "", headerName |-> ""]

\* variant: the bypass flag is not consulted
rateLimitConfigIgnoringBypass(c) ==
    IF c.rateLimitEnabled
    THEN [present |-> TRUE, windowMs |-> c.windowMs, maxRequests |-> c.maxRequests]
    ELSE NoRateLimit

rateLimitConfig(c) ==
    IF c.rateLimitEnabled /\ ~c.rateLimitBypass
    THEN [present |-> TRUE, windowMs |-> c.windowMs, maxRequests |-> c.maxRequests]
    ELSE NoRateLimit

sharedSecretConfig(c) ==
    IF c.transportSecretSet /\ ~c.transportSecretBypass
    THEN [present |-> TRUE, secret |-> TransportSecret, headerName |-> TransportSecretHeader]
    ELSE NoSharedSecret

----------------------------------------------------------------------------
(* src/src/transports/http.ts *)

NoBucket == [exists |-> FALSE, count |-> 0, resetAt |-> 0]

\* variant: rounding down
CeilDivFloor(a, b) == IF a <= 0 THEN 0 ELSE a \div b

CeilDiv(a, b) == IF a <= 0 THEN 0 ELSE ((a - 1) \div b) + 1
Max(a, b) == IF a >= b THEN a ELSE b
Min(a, b) == IF a <= b THEN a ELSE b

\* variant: the comparison off by one (count > maxRequests)
overLimitOffByOne(count, maxRequests) == count > maxRequests

\* existing.count + 1 > maxRequests
overLimit(count, maxRequests) == count + 1 > maxRequests

\* variant: a rejected call starts the client's window again
createRateLimitMiddlewareExtending(config, bkts, key, t) ==
    LET existing == bkts[key]
    IN  IF ~existing.exists \/ t >= existing.resetAt
        THEN [buckets |-> [bkts EXCEPT ![key] =
                  [exists |-> TRUE, count |-> 1, resetAt |-> t + config.windowMs]],
              next |-> TRUE,
              retryAfter |-> 0]
        ELSE IF overLimit(existing.count, config.maxRequests)
        THEN [buckets |-> [bkts EXCEPT ![key].resetAt = t + config.windowMs],
              next |-> FALSE,
              retryAfter |-> Max(1, CeilDiv(existing.resetAt - t, 1000))]
        ELSE [buckets |-> [bkts EXCEPT ![key].count = existing.count + 1],
              next |-> TRUE,
              retryAfter |-> 0]

\* variant: the incremented count is not written back (a lost update)
createRateLimitMiddlewareLostUpdate(config, bkts, key, t) ==
    LET existing == bkts[key]
    IN  IF ~existing.exists \/ t >= existing.resetAt
        THEN [buckets |-> [bkts EXCEPT ![key] =
                  [exists |-> TRUE, count |-> 1, resetAt |-> t + config.windowMs]],
              next |-> TRUE,
              retryAfter |-> 0]
        ELSE IF overLimit(existing.count, config.maxRequests)
        THEN [buckets |-> bkts,
              next |-> FALSE,
              retryAfter |-> Max(1, CeilDiv(existing.resetAt - t, 1000))]
        ELSE [buckets |-> bkts,
              next |-> TRUE,
              retryAfter |-> 0]

\* variant: the limit is tested before the window is renewed
createRateLimitMiddlewareLimitFirst(config, bkts, key, t) ==
    LET existing == bkts[key]
    IN  IF existing.exists /\ overLimit(existing.count, config.maxRequests)
        THEN [buckets |-> bkts,
              next |-> FALSE,
              retryAfter |-> Max(1, CeilDiv(existing.resetAt - t, 1000))]
        ELSE IF ~existing.exists \/ t >= existing.resetAt
        THEN [buckets |-> [bkts EXCEPT ![key] =
                  [exists |-> TRUE, count |-> 1, resetAt |-> t + config.windowMs]],
              next |-> TRUE,
              retryAfter |-> 0]
        ELSE [buckets |-> [bkts EXCEPT ![key].count = existing.count + 1],
              next |-> TRUE,
              retryAfter |-> 0]

\* The rate-limit middleware for the call of client key at time t: whether it
\* calls next(), the buckets afterwards and the Retry-After header it sets.
createRateLimitMiddleware(config, bkts, key, t) ==
    LET existing == bkts[key]
    IN  IF ~existing.exists \/ t >= existing.resetAt
        THEN [buckets |-> [bkts EXCEPT ![key] =
                  [exists |-> TRUE, count |-> 1, resetAt |-> t + config.windowMs]],
              next |-> TRUE,
              retryAfter |-> 0]
        ELSE IF overLimit(existing.count, config.maxRequests)
        THEN [buckets |-> bkts,
              next |-> FALSE,
              retryAfter |-> Max(1, CeilDiv(existing.resetAt - t, 1000))]
        ELSE [buckets |-> [bkts EXCEPT ![key].count = existing.count + 1],
              next |-> TRUE,
              retryAfter |-> 0]

\* Header names as they may be written, and what toLowerCase makes of them.
HeaderNames == {"x-mcp-transport-secret", "X-Mcp-Transport-Secret", "X-MCP-TRANSPORT-SECRET", "x-other"}
toLowerCase(name) == IF name = "x-other" THEN "x-other" ELSE "x-mcp-transport-secret"

\* The headers of a call that matter to the guard: none, or one name and value.
NoHeader == [value |-> "", present |-> FALSE, name |-> ""]
Header(n, v) == [value |-> v, present |-> TRUE, name |-> n]

\* variant: a header lookup that compares names as written
reqGetCaseSensitive(headers, name) ==
    IF headers.present /\ headers.name = name
    THEN [value |-> headers.value, defined |-> TRUE]
    ELSE [value |-> "", defined |-> FALSE]

\* req.get(name): the value of the header of that name, whatever its case
reqGet(headers, name) ==
    IF headers.present /\ toLowerCase(headers.name) = toLowerCase(name)
    THEN [value |-> headers.value, defined |-> TRUE]
    ELSE [value |-> "", defined |-> FALSE]

\* the guard calls next(): !(!provided || provided !== secret)
createSharedSecretMiddleware(config, headers) ==
    LET provided == reqGet(headers, config.headerName)
    IN  ~( (~provided.defined \/ provided.value = "") \/ provided.value # config.secret )

\* variant: the limiter pushed before the guard
mcpMiddlewaresLimiterFirst(secretCfg, rateCfg) ==
    (IF rateCfg.present THEN <<"rateLimit">> ELSE <<>>) \o
    (IF secretCfg.present THEN <<"sharedSecret">> ELSE <<>>)

\* the middlewares of /mcp, in the order createHttpServer pushes them
mcpMiddlewares(secretCfg, rateCfg) ==
    (IF secretCfg.present THEN <<"sharedSecret">> ELSE <<>>) \o
    (IF rateCfg.present THEN <<"rateLimit">> ELSE <<>>)

\* express.json(): a malformed body, or (strict mode) a body that is no object
\* or array, raises a SyntaxError
expressJson(text) ==
    LET parsed == JSONParse(text)
    IN  IF parsed.ok /\ parsed.value.kind \in {"object", "array"} THEN parsed
        ELSE [ok |-> FALSE, value |-> NullPayload]

NoBody == NoResponse

\* res.json(body): the body is written as JSON.stringify(body), which leaves
\* out a member whose value is undefined
resJson(body) ==
    [body EXCEPT !.hasResult = body.hasResult /\ body.result.t # "undefined"]
HttpResponse(status, body, retryAfter) == [body |-> body, retryAfter |-> retryAfter, status |-> status]

\* The middlewares of chain from position i on, for one call.  ran lists the
\* middlewares that were run; rejected is the response of the one that did not
\* call next().
RECURSIVE runMiddlewares(_, _, _, _, _, _, _, _)
runMiddlewares(chain, i, secretCfg, rateCfg, bkts, key, headers, t) ==
    IF i > Len(chain)
    THEN [buckets |-> bkts, next |-> TRUE, ran |-> <<>>, rejected |-> HttpResponse(0, NoBody, 0)]
    ELSE IF chain[i] = "sharedSecret"
    THEN IF createSharedSecretMiddleware(secretCfg, headers)
         THEN LET rest == runMiddlewares(chain, i + 1, secretCfg, rateCfg, bkts, key, headers, t)
              IN  [rest EXCEPT !.ran = <<chain[i]>> \o rest.ran]
         ELSE [buckets |-> bkts, next |-> FALSE, ran |-> <<chain[i]>>,
               rejected |-> HttpResponse(401,
                   resJson(createErrorResponse(JNull, -32002,
                       <<"Missing or invalid MCP transport secret.">>, NoData)), 0)]
    ELSE LET rl == createRateLimitMiddleware(rateCfg, bkts, key, t)
         IN  IF rl.next
             THEN LET rest == runMiddlewares(chain, i + 1, secretCfg, rateCfg, rl.buckets, key, headers, t)
                  IN  [rest EXCEPT !.ran = <<chain[i]>> \o rest.ran]
             ELSE [buckets |-> rl.buckets, next |-> FALSE, ran |-> <<chain[i]>>,
                   rejected |-> HttpResponse(429,
                       resJson(createErrorResponse(JNull, -32001,
                           <<"Too many requests. Please retry later.">>, NoData)), rl.retryAfter)]

\* dispatcher (index.ts): async (request) => handleRpc(request)
dispatcher(request, registry, out) == handleRpcImpl(ValueBody(request), registry, out)

\* handleMcpRequest: the response written and what the dispatcher did
handleMcpRequest(payload, registry, out) ==
    IF ~isJSONRPCRequest(payload)
    THEN [invoked |-> FALSE,
          arg |-> Undefined, http |-> HttpResponse(400,
                resJson(createErrorResponse(JNull, -32600, <<"Invalid Request">>, NoData)), 0)]
    ELSE LET d == dispatcher(payload, registry, out)
             id == IF payload.id.t = "undefined" THEN JNull ELSE payload.id
         IN  IF d.response = NoResponse
             THEN [invoked |-> d.invoked,
                   arg |-> d.arg, http |-> HttpResponse(500,
                        resJson(createErrorResponse(id, -32603,
                            <<"Internal error while processing request.">>, NoData)), 0)]
             ELSE [invoked |-> d.invoked,
                   arg |-> d.arg, http |-> HttpResponse(200, resJson(d.response), 0)]

\* POST /mcp, from express.json() to the response
postMcp(text, headers, key, t, secretCfg, rateCfg, bkts, registry, out) ==
    LET parsed == expressJson(text)
        gates == runMiddlewares(mcpMiddlewares(secretCfg, rateCfg), 1,
                                secretCfg, rateCfg, bkts, key, headers, t)
        h == handleMcpRequest(parsed.value, registry, out)
    IN  IF ~parsed.ok
        THEN [buckets |-> bkts, invoked |-> FALSE, arg |-> Undefined, ran |-> <<>>,
              http |-> HttpResponse(400,
                    resJson(createErrorResponse(JNull, -32700, <<"Parse error">>, NoData)), 0),
              handled |-> FALSE]
        ELSE IF ~gates.next
        THEN [buckets |-> gates.buckets, invoked |-> FALSE, arg |-> Undefined,
              ran |-> gates.ran, http |-> gates.rejected, handled |-> FALSE]
        ELSE [buckets |-> gates.buckets, invoked |-> h.invoked, arg |-> h.arg,
              ran |-> gates.ran, http |-> h.http, handled |-> TRUE]

\* GET /mcp/stream (http.ts).  req.query.topic is undefined, a string, an
\* array (of which the first element counts) or an object.
TopicParam(kind, first) == [kind |-> kind, first |-> first]
NoTopic == TopicParam("undefined", "undefined")
\* const topic = Array.isArray(topicParam) ? topicParam[0] : topicParam, as
\* its typeof
typeofTopic(topicParam) == IF topicParam.kind = "array" THEN topicParam.first ELSE topicParam.kind
\* if (topic && typeof topic !== 'string'): every object is truthy
invalidTopic(topicParam) == typeofTopic(topicParam) = "object"

\* setInterval(..., 15_000)
HEARTBEAT_MS == 15000

\* One SSE connection: what was written to res and when, the heartbeat timer
\* and the time it next fires, whether the client is in sseClients, and
\* whether the connection is open, closed by the client or ended by the server.
Written(what, t) == [t |-> t, what |-> what]
NoStream == [state |-> "none", writes |-> <<>>, heartbeat |-> "none", due |-> 0, member |-> FALSE]

\* the route handler past the topic check, at time t
openStream(t) ==
    [state |-> "open",
     writes |-> <<Written(": stream established", t), Written(": ping", t)>>,
     heartbeat |-> "armed", due |-> t + HEARTBEAT_MS, member |-> TRUE]

\* the interval callback, at time t
heartbeatFires(s, t) ==
    [s EXCEPT !.writes = Append(s.writes, Written(": ping", t)), !.due = t + HEARTBEAT_MS]

\* variant: the client is removed with its timer left running
removeClientKeepingTimer(s) == [s EXCEPT !.member = FALSE]

\* removeClient(client)
removeClient(s) == [s EXCEPT !.heartbeat = "cleared", !.member = FALSE]

\* variant: server.close without sseClients.clear()
closeClientKeepingMember(s) ==
    IF s.member
    THEN [s EXCEPT !.state = "ended", !.heartbeat = "cleared"]
    ELSE s

\* server.close as startHttpServer replaces it, for one member of sseClients:
\* clearInterval, res.end(), socket.destroy(), and sseClients.clear()
closeClient(s) ==
    IF s.member
    THEN [s EXCEPT !.state = "ended", !.heartbeat = "cleared", !.member = FALSE]
    ELSE s

----------------------------------------------------------------------------
(* src/unnamed/part_001: the Canvas client *)

DEFAULT_RETRY_DELAY == 250
ERROR_BODY_SNIPPET_LIMIT == 200

RECURSIVE Pow2(_)
Pow2(k) == IF k <= 0 THEN 1 ELSE 2 * Pow2(k - 1)

\* A Retry-After header: absent, a seconds count, an HTTP-date (as the ms
\* timestamp it denotes) or some other text.
NoHint == [kind |-> "none", n |-> 0]
SecondsHint(n) == [kind |-> "seconds", n |-> n]
DateHint(ts) == [kind |-> "date", n |-> ts]
OtherHint == [kind |-> "other", n |-> 0]

\* parseRetryAfter(header) at time t: the wait in ms, or undefined
parseRetryAfter(header, t) ==
    IF header.kind = "none" THEN [defined |-> FALSE, ms |-> 0]
    ELSE IF header.kind = "seconds" /\ header.n >= 0
    THEN [defined |-> TRUE, ms |-> header.n * 1000]
    ELSE IF header.kind = "date"
    THEN (IF header.n - t > 0 THEN [defined |-> TRUE, ms |-> header.n - t]
          ELSE [defined |-> FALSE, ms |-> 0])
    ELSE [defined |-> FALSE, ms |-> 0]

\* calculateBackoff(baseDelay, attemptIndex, retryAfter); Math.random() is
\* the draw j / JitterSteps, and the result is rounded down to whole ms
JitterSteps == 4

\* variant: jitter of up to 50%
calculateBackoffHalfJitter(baseDelay, attemptIndex, retryAfter, j) ==
    IF retryAfter.defined THEN retryAfter.ms
    ELSE IF attemptIndex <= 0 THEN 0
    ELSE LET backoff == baseDelay * Pow2(attemptIndex - 1)
         IN  backoff + ((j * backoff) \div (2 * JitterSteps))

calculateBackoff(baseDelay, attemptIndex, retryAfter, j) ==
    IF retryAfter.defined THEN retryAfter.ms
    ELSE IF attemptIndex <= 0 THEN 0
    ELSE LET backoff == baseDelay * Pow2(attemptIndex - 1)
         IN  backoff + ((j * backoff) \div (4 * JitterSteps))

\* A text is the sequence of its characters (UTF-16 code units); Ellipsis is
\* the one character U+2026 of the template literal in extractSnippet.
WhiteSpace == {" ", "\n"}
Ellipsis == "U+2026"
Repeat(c, n) == [i \in 1..n |-> c]

\* String.prototype.trim
RECURSIVE trimStart(_)
trimStart(s) == IF Len(s) > 0 /\ Head(s) \in WhiteSpace THEN trimStart(Tail(s)) ELSE s
RECURSIVE trimEnd(_)
trimEnd(s) ==
    IF Len(s) > 0 /\ s[Len(s)] \in WhiteSpace THEN trimEnd(SubSeq(s, 1, Len(s) - 1)) ELSE s
trim(s) == trimEnd(trimStart(s))

\* String.prototype.slice(0, to), to >= 0
slice(s, to) == SubSeq(s, 1, Min(to, Len(s)))

\* A response body is null or a text; the snippet is undefined for a null or
\* empty body, else a text.
NoSnippet == [text |-> <<>>, defined |-> FALSE]
NullText == [text |-> <<>>, isNull |-> TRUE]
BodyText(s) == [text |-> s, isNull |-> FALSE]

\* variant: the comparison with the limit off by one
extractSnippetOffByOne(body) ==
    IF body.isNull \/ Len(body.text) = 0 THEN NoSnippet
    ELSE LET trimmed == trim(body.text)
         IN  IF Len(trimmed) < ERROR_BODY_SNIPPET_LIMIT
             THEN [text |-> trimmed, defined |-> TRUE]
             ELSE [text |-> slice(trimmed, ERROR_BODY_SNIPPET_LIMIT) \o <<Ellipsis>>,
                   defined |-> TRUE]

extractSnippet(body) ==
    IF body.isNull \/ Len(body.text) = 0 THEN NoSnippet
    ELSE LET trimmed == trim(body.text)
         IN  IF Len(trimmed) <= ERROR_BODY_SNIPPET_LIMIT
             THEN [text |-> trimmed, defined |-> TRUE]
             ELSE [text |-> slice(trimmed, ERROR_BODY_SNIPPET_LIMIT) \o <<Ellipsis>>,
                   defined |-> TRUE]

\* A URL as its host, the segments of its pathname and its query; a path
\* handed to performRequest is absolute (it starts with http:// or https://),
\* rooted (it starts with one /) or relative.
URL(host, pathname, search) == [host |-> host, pathname |-> pathname, search |-> search]
AbsolutePath(host, segs, search) ==
    [form |-> "absolute", host |-> host, search |-> search, segs |-> segs]
RootedPath(segs, search) == [form |-> "rooted", host |-> "", search |-> search, segs |-> segs]
RelativePath(segs, search) == [form |-> "relative", host |-> "", search |-> search, segs |-> segs]

\* resolveDomain('canvas.test'): https://canvas.test/api/v1
baseUrl == URL("canvas.test", <<"api", "v1">>, "")

\* resolveUrl(baseUrl, path): an absolute path as it is; any other without
\* its leading /, resolved against the base with a trailing /.  A pathname
\* may have empty segments (//): of /seg... the rest is relative to the base,
\* of //seg... the rest, /seg..., is rooted, and of ///host/seg... the rest,
\* //host/seg..., is scheme-relative and names its own host.
resolveUrl(base, path) ==
    IF path.form = "absolute" THEN URL(path.host, path.segs, path.search)
    ELSE IF path.form = "rooted" /\ Len(path.segs) >= 3
                /\ path.segs[1] = "" /\ path.segs[2] = ""
    THEN URL(path.segs[3], SubSeq(path.segs, 4, Len(path.segs)), path.search)
    ELSE IF path.form = "rooted" /\ Len(path.segs) >= 2 /\ path.segs[1] = ""
    THEN URL(base.host, Tail(path.segs), path.search)
    ELSE URL(base.host, base.pathname \o path.segs, path.search)

\* new URL(path, base), for a base that does not end with /
newURL(path, base) ==
    IF path.form = "absolute" THEN URL(path.host, path.segs, path.search)
    ELSE IF path.form = "rooted" THEN URL(base.host, path.segs, path.search)
    ELSE URL(base.host, SubSeq(base.pathname, 1, Len(base.pathname) - 1) \o path.segs,
             path.search)

\* readResponseBody: the text, null when text() throws a TypeError, and
\* otherwise the error is thrown on
readResponseBody(read) ==
    IF read.fails = "none" THEN [body |-> read.text, threw |-> FALSE]
    ELSE IF read.fails = "TypeError" THEN [body |-> NullText, threw |-> FALSE]
    ELSE [body |-> NullText, threw |-> TRUE]

\* response.ok
ok(status) == status >= 200 /\ status <= 299

\* variant: any error status is retried while budget remains
shouldRetryAnyStatus(attempt, maxRetries, status) == attempt < maxRetries

\* variant: the budget test off by one
shouldRetryOffByOne(attempt, maxRetries, status) ==
    attempt <= maxRetries /\ (status = 429 \/ status >= 500)

\* const shouldRetry = attempt < config.maxRetries && (status === 429 || status >= 500)
shouldRetry(attempt, maxRetries, status) ==
    attempt < maxRetries /\ (status = 429 \/ status >= 500)

\* variant: the budget test of the catch clause off by one
shouldRetryAfterErrorOffByOne(attempt, maxRetries) == attempt <= maxRetries

\* const shouldRetry = attempt < config.maxRetries   (catch clause)
shouldRetryAfterError(attempt, maxRetries) == attempt < maxRetries

CanvasHttpError(status, url, snippet) == [status |-> status, url |-> url, snippet |-> snippet]
NoUrl == URL("", <<>>, "")
NoCanvasError == CanvasHttpError(-1, NoUrl, NoSnippet)

\* What a fetch attempt comes to: a response, an abort by the attempt's
\* timeout (AbortError) or another rejection (network error).
Responded(status, hint) == [kind |-> "response", status |-> status, hint |-> hint]
Aborted == [kind |-> "abort", status |-> 0, hint |-> NoHint]
NetworkError == [kind |-> "network", status |-> 0, hint |-> NoHint]

\* how reading the body of an error response goes
ReadText(b) == [text |-> b, fails |-> "none"]
ReadTypeError == [text |-> NullText, fails |-> "TypeError"]
ReadAborted == [text |-> NullText, fails |-> "AbortError"]
Unread == [text |-> NullText, fails |-> "unread"]

\* One pass of performRequest's loop body once fetch has settled, for loop
\* index attempt: what the pass ends in ("return", "throw", or "retry" after
\* waiting waitMs), the error thrown and how the attempt is recorded.
attemptPass(targetUrl, attempt, maxRetries, baseDelay, res, read, j, t) ==
    LET retryHttp == shouldRetry(attempt, maxRetries, res.status)
        body == readResponseBody(read)
        caught ==
            \* the catch clause, for anything thrown that is no CanvasHttpError
            IF ~shouldRetryAfterError(attempt, maxRetries)
            THEN [error |-> CanvasHttpError(0, targetUrl, NoSnippet),
                  ends |-> "throw", waitMs |-> 0]
            ELSE [error |-> NoCanvasError, ends |-> "retry",
                  waitMs |-> calculateBackoff(baseDelay, attempt + 1,
                                              [defined |-> FALSE, ms |-> 0], j)]
    IN  IF res.kind # "response" THEN caught
        ELSE IF ok(res.status)
        THEN [error |-> NoCanvasError, ends |-> "return", waitMs |-> 0]
        ELSE IF ~retryHttp
        THEN (IF body.threw THEN caught
              ELSE [error |-> CanvasHttpError(res.status, targetUrl,
                                              extractSnippet(body.body)),
                    ends |-> "throw",
                    waitMs |-> 0])
        ELSE [error |-> NoCanvasError, ends |-> "retry",
              waitMs |-> calculateBackoff(baseDelay, attempt + 1,
                                          parseRetryAfter(res.hint, t), j)]

\* A Link header is its comma-separated parts, each a URL, in angle brackets
\* or not, and a rel parameter; null and the empty header are <<>>.
LinkPart(url, rel) == [url |-> url, rel |-> rel, bracketed |-> TRUE]
Rels == {"current", "next", "first", "last"}
NoLink == [defined |-> FALSE, url |-> RootedPath(<<>>, "")]

\* the greatest member of a non-empty set of numbers
Last(S) == CHOOSE i \in S : \A k \in S : k <= i

\* variant: only the first part of the header is consulted
parseLinkHeaderFirstPart(header) ==
    [rel \in Rels |->
        IF Len(header) > 0 /\ header[1].bracketed /\ header[1].rel = rel
        THEN [defined |-> TRUE, url |-> header[1].url]
        ELSE NoLink]

\* parseLinkHeader(header): each rel mapped to the URL of the last part in
\* angle brackets that names it
parseLinkHeader(header) ==
    [rel \in Rels |->
        LET at == {i \in 1..Len(header) : header[i].bracketed /\ header[i].rel = rel}
        IN  IF at = {} THEN NoLink
            ELSE [defined |-> TRUE, url |-> header[Last(at)].url]]

\* The body of a 2xx response: a JSON array of courses (their ids), no bytes
\* at all, or text that is no JSON.
ArrayBody(items) == [form |-> "array", items |-> items]
EmptyBody == [form |-> "empty", items |-> <<>>]
MalformedBody == [form |-> "malformed", items |-> <<>>]
\* ({} as T), what an empty body is parsed to
EmptyObject == [form |-> "object", items |-> <<>>]

\* a JSON object, such as a user profile (its id)
ObjectBody(id) == [form |-> "object", items |-> <<id>>]

\* variant: a body that does not parse is taken as {}
authorizedGetJsonLenient(response) ==
    [data |-> IF response.body.form \in {"empty", "malformed"} THEN EmptyObject
              ELSE response.body,
     threw |-> FALSE,
     linkHeader |-> response.link]

\* authorizedGetJson(path) once performRequest has returned the response: the
\* Link header, and the body parsed, {} for an empty one, or the Error thrown
\* for one that does not parse
authorizedGetJson(response) ==
    [data |-> IF response.body.form = "empty" THEN EmptyObject ELSE response.body,
     threw |-> response.body.form = "malformed",
     linkHeader |-> response.link]

\* let nextUrl: string | undefined
NoNextUrl == [defined |-> FALSE, path |-> RootedPath(<<>>, "")]
NextUrl(path) == [defined |-> TRUE, path |-> path]
\* '/courses?enrollment_state=active&per_page=50'
FirstPage == RootedPath(<<"courses">>, "enrollment_state=active&per_page=50")

\* variant: the page asked for next is the one of the last link
listCoursesPassSkipping(courses, data, linkHeader) ==
    LET links == parseLinkHeader(linkHeader)
        next == newURL(links["last"].url, baseUrl)
    IN  [threw |-> data.form # "array",
         courses |-> courses \o data.items,
         nextUrl |-> IF links["next"].defined
                     THEN NextUrl(RootedPath(next.pathname, next.search))
                     ELSE NoNextUrl]

\* variant: the loop ends after one page
listCoursesPassOnce(courses, data, linkHeader) ==
    [threw |-> data.form # "array",
     courses |-> courses \o data.items,
     nextUrl |-> NoNextUrl]

\* variant: data that cannot be spread is passed over
listCoursesPassTolerant(courses, data, linkHeader) ==
    LET links == parseLinkHeader(linkHeader)
        next == newURL(links["next"].url, baseUrl)
    IN  [threw |-> FALSE,
         courses |-> courses \o data.items,
         nextUrl |-> IF links["next"].defined
                     THEN NextUrl(RootedPath(next.pathname, next.search))
                     ELSE NoNextUrl]

\* variant: the courses of earlier pages are dropped
listCoursesPassDropping(courses, data, linkHeader) ==
    LET links == parseLinkHeader(linkHeader)
        next == newURL(links["next"].url, baseUrl)
    IN  [threw |-> data.form # "array",
         courses |-> data.items,
         nextUrl |-> IF links["next"].defined
                     THEN NextUrl(RootedPath(next.pathname, next.search))
                     ELSE NoNextUrl]

\* One pass of listCourses' loop body once authorizedGetJson has returned:
\* courses.push(...data), a TypeError when data is not iterable, and the next
\* URL, the pathname and search of the next link resolved against the base.
listCoursesPass(courses, data, linkHeader) ==
    LET links == parseLinkHeader(linkHeader)
        next == newURL(links["next"].url, baseUrl)
    IN  [threw |-> data.form # "array",
         courses |-> courses \o data.items,
         nextUrl |-> IF links["next"].defined
                     THEN NextUrl(RootedPath(next.pathname, next.search))
                     ELSE NoNextUrl]

----------------------------------------------------------------------------
(* The state machine *)

\* history of one client's window: the time of the call that opened it and
\* the number of calls that reached the limiter since (counted up to cap);
\* calls is the number of the client's POST /mcp calls that reached the
\* handler with no limiter run (up to cap); for a client that is watched,
\* allowed lists the times of the calls the limiter let through, as far back
\* as one window length; passed is the number of calls the limiter let
\* through in the window
NoWindow ==
    [n |-> 0, open |-> FALSE, start |-> 0, calls |-> 0, allowed |-> <<>>, watched |-> FALSE,
     passed |-> 0]

noteCall(w, t, windowMs, cap) ==
    IF ~w.open \/ t >= w.start + windowMs
    THEN [w EXCEPT !.n = 1, !.open = TRUE, !.start = t]
    ELSE [w EXCEPT !.n = Min(w.n + 1, cap)]

\* at time t the history keeps the calls let through since t - windowMs
forget(w, t, windowMs) ==
    [w EXCEPT !.allowed = SelectSeq(w.allowed, LAMBDA x : x >= t - windowMs)]

\* the limiter has let a call through at time t
noteAllowed(w, t, windowMs) ==
    IF w.watched THEN [w EXCEPT !.allowed = Append(forget(w, t, windowMs).allowed, t)]
    ELSE w

\* the history of a client after a call at time t that reached the limiter
\* and was let through or not
noteLimited(w, t, windowMs, cap, through) ==
    LET called == noteCall(w, t, windowMs, cap)
        before == IF called.n = 1 THEN 0 ELSE w.passed
    IN  IF through THEN [noteAllowed(called, t, windowMs) EXCEPT !.passed = before + 1]
        ELSE [called EXCEPT !.passed = before]

\* the POST /mcp calls of one client that are under way: received with their
\* body parsed and waiting for the route's handlers, dispatched and waiting
\* for the dispatcher; made counts the calls the client has made
NoneInFlight == [received |-> 0, dispatched |-> 0, made |-> 0]

NoCall ==
    [t |-> 0, method |-> "", handler |-> "", out |-> Returns(Undefined),
     response |-> NoResponse, invoked |-> FALSE, arg |-> Undefined,
     body |-> ValueBody(NullPayload), headers |-> NoHeader, ran |-> <<>>, http |-> HttpResponse(0, NoBody, 0),
     handled |-> FALSE, threw |-> FALSE, op |-> "none", client |-> "", topic |-> NoTopic]

\* the callers of the Canvas client whose requests are under way together
Callers == {"first", "second"}

\* performRequest: where it stands (pc), the loop index, the fetch calls made,
\* how each attempt ended, the last wait, the attempt's timer ("armed" from
\* setTimeout until it fires or is cleared) and whether the signal of the
\* attempt's controller is aborted, the attempts whose timer fired, and the
\* outcome;
\* the path requested and the URL it resolves to, and the Retry-After header
\* and the body read of the last response
IdleRequest ==
    [error |-> NoCanvasError, body |-> NullText, path |-> RootedPath(<<>>, ""),
     attempt |-> 0,
     maxRetries |-> 0, hint |-> NoHint, targetUrl |-> NoUrl,
     waitMs |-> 0, pc |-> "idle", attempts |-> 0, outcomes |-> <<>>,
     timer |-> "none", errors |-> 0, aborted |-> FALSE, fired |-> {}]

\* listCourses or getCurrentUser (op): where it stands (pc), the locals
\* courses and nextUrl, the responses it has consumed, the fetch calls made
\* for it and how many of them did not come back 2xx, the value getCurrentUser
\* returns (data) and the kind of error thrown to the caller; chain and style
\* are the upstream it talks to
IdleCourses ==
    [data |-> EmptyBody, chain |-> <<>>, courses |-> <<>>, nextUrl |-> NoNextUrl,
     calls |-> 0, op |-> "none", pc |-> "idle", served |-> 0,
     failed |-> 0, style |-> "next", thrown |-> "none"]

\* the state after construction, for one of configs, with the clients in
\* watching watched
InitWatching(configs, watching) ==
    /\ cfg \in configs
    /\ now = 0
    /\ buckets = [c \in Clients |-> NoBucket]
    /\ win = [c \in Clients |-> [NoWindow EXCEPT !.watched = c \in watching]]
    /\ toolRegistry = [m \in Methods |-> NoTool]
    /\ toolsRegistry = [m \in ToolNames |-> IF m = "system.ping" THEN systemPing ELSE NoDefinition]
    /\ last = NoCall
    /\ rq = IdleRequest
    /\ lc = IdleCourses
    /\ sse = [listening |-> TRUE, streams |-> [c \in Clients |-> NoStream]]
    /\ inflight = [c \in Clients |-> NoneInFlight]
    /\ callers = [i \in Callers |-> IdleRequest]

InitWith(configs) == InitWatching(configs, {})

\* time passes; the histories forget what is more than a window length ago
Tick ==
    /\ now + 500 \in Clock
    /\ now' = now + 500
    /\ win' = [c \in Clients |-> forget(win[c], now + 500, cfg.windowMs)]
    /\ UNCHANGED <<cfg, buckets, toolRegistry, toolsRegistry, last, rq, lc, sse, inflight, callers>>

\* handleRpc.registerTool(method, schema, handler)
RegisterTool(method, h) ==
    /\ toolRegistry' = registerTool(toolRegistry, method, h)
    /\ last' = [NoCall EXCEPT !.op = "register", !.method = method, !.handler = h,
                              !.threw = registerToolThrows(toolRegistry, method)]
    /\ UNCHANGED <<cfg, now, buckets, win, toolsRegistry, rq, lc, sse, inflight, callers>>

\* tools/index.ts registerTool(method, definition), which does not throw
RegisterToolDefinition(method, h) ==
    /\ toolsRegistry' = registerToolDefinition(toolsRegistry, method, Definition(method, h))
    /\ last' = [NoCall EXCEPT !.op = "registerDefinition", !.method = method, !.handler = h]
    /\ UNCHANGED <<cfg, now, buckets, win, toolRegistry, rq, lc, sse, inflight, callers>>

\* one POST /mcp call of client c, handled to its response; out is what the
\* tool handler does when the call reaches it
PostMcp(c, headers, text, out) ==
    LET r == postMcp(text, headers, c, now, sharedSecretConfig(cfg), rateLimitConfig(cfg),
                     buckets, toolRegistry, out)
        limited == \E i \in 1..Len(r.ran) : r.ran[i] = "rateLimit"
    IN  /\ buckets' = r.buckets
        /\ win' = [win EXCEPT ![c] =
                     IF limited
                     THEN noteLimited(win[c], now, cfg.windowMs, cfg.maxRequests + 1,
                                      r.http.status # 429)
                     ELSE IF r.handled
                     THEN [win[c] EXCEPT !.calls = Min(win[c].calls + 1, cfg.maxRequests + 1)]
                     ELSE win[c]]
        /\ last' = [NoCall EXCEPT !.op = "post", !.client = c, !.headers = headers,
                                  !.body = StringBody(text), !.t = now, !.http = r.http,
                                  !.response = r.http.body,
                                  !.ran = r.ran, !.handled = r.handled,
                                  !.invoked = r.invoked, !.arg = r.arg, !.out = out]
        /\ UNCHANGED <<cfg, now, toolRegistry, toolsRegistry, rq, lc, sse, inflight, callers>>

\* the outcomes a handler can have for a call, when the call reaches a handler
PostOutcomes(c, headers, text) ==
    IF postMcp(text, headers, c, now, sharedSecretConfig(cfg), rateLimitConfig(cfg),
               buckets, toolRegistry, Returns(Undefined)).invoked
    THEN HandlerOutcomes ELSE {Returns(Undefined)}

----------------------------------------------------------------------------
(* Spec: POST /mcp calls with bodies and headers of every shape, arriving at  *)
(* one instant through both gates                                           *)

Object(j, m, p, i) == Text(TRUE, Payload("object", j, m, p, i))
HttpBodies ==
    { Garbage, Text(TRUE, PrimitivePayload), Text(TRUE, ArrayPayload),
      Object(JSON_RPC_VERSION, Undefined, Undefined, Num("1")),
      Object(Str("1.0"), Str("ping"), Undefined, Undefined),
      Object(JSON_RPC_VERSION, Str(""), Undefined, Num("1")),
      Object(JSON_RPC_VERSION, Str("nope"), Undefined, Num("1")),
      Object(JSON_RPC_VERSION, Str("nope"), Undefined, Undefined),
      Object(JSON_RPC_VERSION, Str("ping"), Obj("{}"), Num("1")),
      Object(JSON_RPC_VERSION, Str("ping"), Str("oops"), Num("1")),
      Object(JSON_RPC_VERSION, Str("ping"), Str("oops"), Undefined),
      Object(JSON_RPC_VERSION, Str("ping"), Undefined, Undefined) }
HttpHeaders ==
    { NoHeader, Header("x-mcp-transport-secret", TransportSecret),
      Header("X-MCP-TRANSPORT-SECRET", TransportSecret),
      Header("x-mcp-transport-secret", "wrong"), Header("x-mcp-transport-secret", ""),
      Header("x-other", TransportSecret) }

\* each gate on or off, with a window of 1000 ms and one request per window
GateConfigs ==
    { c \in Configs : /\ c.windowMs = 1000 /\ c.maxRequests = 1
                      /\ ~c.rateLimitBypass /\ ~c.transportSecretBypass }

Init == InitWith(GateConfigs)

Next ==
    \/ RegisterTool("ping", "h1")
    \/ \E headers \in HttpHeaders, text \in HttpBodies :
         \E out \in PostOutcomes("10.0.0.1", headers, text) :
            PostMcp("10.0.0.1", headers, text, out)

Spec == Init /\ [][Next]_vars

----------------------------------------------------------------------------
(* SpecLimiter: well-formed calls of two clients under every configuration *)

PingCall == Object(JSON_RPC_VERSION, Str("ping"), Obj("{}"), Num("1"))

InitLimiter == InitWith(Configs)

NextLimiter ==
    \/ Tick
    \/ \E c \in Clients, headers \in {NoHeader, Header("x-mcp-transport-secret", TransportSecret)} :
         \E out \in PostOutcomes(c, headers, PingCall) :
            PostMcp(c, headers, PingCall, out)

SpecLimiter == InitLimiter /\ [][NextLimiter]_vars

----------------------------------------------------------------------------
(* SpecRpc: handleRpc called directly, with tools registered along the way *)

RpcPayloads ==
    { NullPayload, PrimitivePayload, ArrayPayload } \cup
    { Payload("object", j, m, p, i) :
        j \in {JSON_RPC_VERSION, Str("1.0"), Undefined},
        m \in {Undefined, Str(""), Str("ping"), Str("nope")},
        p \in {Undefined, Obj("{x:1}"), Str("oops")},
        i \in {Undefined, JNull, Num("1"), Bool("true")} }
TextPayloads ==
    { PrimitivePayload,
      Payload("object", JSON_RPC_VERSION, Undefined, Undefined, Num("1")),
      Payload("object", JSON_RPC_VERSION, Str("nope"), Undefined, Str("a")),
      Payload("object", JSON_RPC_VERSION, Str("ping"), Str("oops"), Str("a")),
      Payload("object", JSON_RPC_VERSION, Str("ping"), Obj("{}"), Str("a")),
      Payload("object", JSON_RPC_VERSION, Str("ping"), Obj("{}"), Undefined) }
RpcBodies ==
    { ValueBody(p) : p \in RpcPayloads } \cup
    { StringBody(Garbage), BufferBody(Garbage) } \cup
    { StringBody(Text(TRUE, p)) : p \in TextPayloads } \cup
    { BufferBody(Text(TRUE, p)) : p \in TextPayloads }

\* one call of handleRpc(body)
HandleRpc(body, out) ==
    LET r == handleRpcImpl(body, toolRegistry, out)
    IN  /\ last' = [NoCall EXCEPT !.op = "rpc", !.body = body, !.response = r.response,
                                  !.invoked = r.invoked, !.arg = r.arg, !.out = out]
        /\ UNCHANGED <<cfg, now, buckets, win, toolRegistry, toolsRegistry, rq, lc, sse, inflight, callers>>

RpcOutcomes(body) ==
    IF handleRpcImpl(body, toolRegistry, Returns(Undefined)).invoked
    THEN HandlerOutcomes ELSE {Returns(Undefined)}

DefaultConfig ==
    [rateLimitEnabled |-> TRUE, rateLimitBypass |-> FALSE, windowMs |-> 1000,
     maxRequests |-> 1, transportSecretSet |-> FALSE, transportSecretBypass |-> FALSE]

InitRpc == InitWith({DefaultConfig})

NextRpc ==
    \/ \E m \in Methods, h \in Handlers : RegisterTool(m, h)
    \/ \E m \in ToolNames, h \in Handlers : RegisterToolDefinition(m, h)
    \/ \E body \in RpcBodies : \E out \in RpcOutcomes(body) : HandleRpc(body, out)

SpecRpc == InitRpc /\ [][NextRpc]_vars

----------------------------------------------------------------------------
(* SpecClient: one performRequest of the Canvas client, attempt by attempt *)

Statuses == {200, 401, 404, 429, 500, 503}
Hints == {NoHint, SecondsHint(0), SecondsHint(2), DateHint(3000), DateHint(0), OtherHint}
BodyReads ==
    { ReadText(BodyText(<<>>)), ReadText(BodyText(<<" ">>)),
      ReadText(BodyText(<<" ", "n", "o", "\n">>)), ReadText(BodyText(<<"n", "o", Ellipsis>>)),
      ReadText(BodyText(Repeat("x", ERROR_BODY_SNIPPET_LIMIT))),
      ReadText(BodyText(<<" ">> \o Repeat("x", ERROR_BODY_SNIPPET_LIMIT + 1) \o <<" ">>)),
      ReadTypeError, ReadAborted }
Paths ==
    { RootedPath(<<"users", "self", "profile">>, ""), RelativePath(<<"courses">>, "per_page=50"),
      AbsolutePath("files.test", <<"f">>, "") }

\* variant: one controller for all the attempts of a request
newAbortControllerShared(aborted) == aborted

\* new AbortController(): its signal is not aborted, whatever became of the
\* controller of the attempt before
newAbortController(aborted) == FALSE

\* the loop condition attempt <= config.maxRetries, with the controller and
\* the timer of the pass and, past the loop, the CanvasHttpError "failed after
\* retries"
loopHead(r) ==
    IF r.attempt <= r.maxRetries
    THEN [r EXCEPT !.pc = "fetch", !.attempts = r.attempts + 1, !.timer = "armed",
                   !.aborted = newAbortController(r.aborted)]
    ELSE [r EXCEPT !.pc = "raised", !.errors = r.errors + 1,
                   !.error = CanvasHttpError(0, newURL(r.path, baseUrl), NoSnippet)]

\* performRequest(path) with maxRetries = R, up to its first await: targetUrl
\* is resolved, and the first pass arms its timer and calls fetch
performRequest(R, path) ==
    loopHead([IdleRequest EXCEPT !.maxRetries = R, !.path = path,
                                 !.targetUrl = resolveUrl(baseUrl, path)])

\* performRequest(path) is called with maxRetries = R
StartRequest(R, path) ==
    /\ rq.pc = "idle"
    /\ rq' = performRequest(R, path)
    /\ UNCHANGED <<cfg, now, buckets, win, toolRegistry, toolsRegistry, last, lc, sse, inflight, callers>>

\* what the fetch of r may settle with: the body is read only of a response
\* that is thrown as an error, and Math.random() is drawn only for a backoff
settles(r, res, read, j, t) ==
    LET pass == attemptPass(r.targetUrl, r.attempt, r.maxRetries,
                            DEFAULT_RETRY_DELAY, res, read, j, t)
        reads == res.kind = "response" /\ ~ok(res.status)
                     /\ ~shouldRetry(r.attempt, r.maxRetries, res.status)
        draws == pass.ends = "retry"
                     /\ ~(res.kind = "response" /\ parseRetryAfter(res.hint, t).defined)
    IN  /\ (read = Unread) <=> ~reads
        /\ ~draws => j = 0
        /\ (res.kind = "response" /\ (ok(res.status) \/ reads)) => res.hint = NoHint

\* the request r once its fetch has settled and the pass has run to its
\* return, its throw (finally clears the timer) or its delay
afterFetch(r, res, read, j, t) ==
    LET pass == attemptPass(r.targetUrl, r.attempt, r.maxRetries,
                            DEFAULT_RETRY_DELAY, res, read, j, t)
        reads == res.kind = "response" /\ ~ok(res.status)
                     /\ ~shouldRetry(r.attempt, r.maxRetries, res.status)
        how == IF reads /\ read.fails = "AbortError"
               THEN [kind |-> "bodyAbort", status |-> res.status]
               ELSE [kind |-> res.kind, status |-> res.status]
    IN  [r EXCEPT
            !.outcomes = Append(r.outcomes, how),
            !.pc = IF pass.ends = "return" THEN "returned"
                   ELSE IF pass.ends = "throw" THEN "raised" ELSE "wait",
            !.timer = IF pass.ends = "retry" THEN r.timer ELSE "none",
            !.waitMs = pass.waitMs,
            !.body = readResponseBody(read).body,
            !.hint = res.hint,
            !.errors = IF pass.ends = "throw" THEN r.errors + 1 ELSE r.errors,
            !.error = pass.error]

\* the delay of r has elapsed: finally clears the timer and the loop goes on
\* to its next pass, where waitMs and the response of this pass are out of
\* scope
afterDelay(r) ==
    loopHead([r EXCEPT !.attempt = r.attempt + 1, !.timer = "none",
                       !.waitMs = 0, !.hint = NoHint])

\* the fetch in flight settles and the pass runs to its return, its throw or
\* its delay
FetchSettles(res, read, j) ==
    /\ rq.pc = "fetch"
    /\ settles(rq, res, read, j, now)
    /\ rq' = afterFetch(rq, res, read, j, now)
    /\ UNCHANGED <<cfg, now, buckets, win, toolRegistry, toolsRegistry, last, lc, sse, inflight, callers>>

\* the delay elapses: finally clears the timer and the loop goes on to its
\* next pass, where waitMs and the response of this pass are out of scope
DelayElapses ==
    /\ rq.pc = "wait"
    /\ rq' = afterDelay(rq)
    /\ UNCHANGED <<cfg, now, buckets, win, toolRegistry, toolsRegistry, last, lc, sse, inflight, callers>>

\* the caller has its result or its error; the client is called again
Settle ==
    /\ rq.pc \in {"returned", "raised"}
    /\ rq' = IdleRequest
    /\ UNCHANGED <<cfg, now, buckets, win, toolRegistry, toolsRegistry, last, lc, sse, inflight, callers>>

InitClient == InitWith({DefaultConfig})

NextClient ==
    \/ \E R \in -1..MaxRetriesBound, path \in Paths : StartRequest(R, path)
    \/ \E res \in {Aborted, NetworkError} \cup {Responded(st, h) : st \in Statuses, h \in Hints},
          read \in BodyReads \cup {Unread}, j \in 0..(JitterSteps - 1) :
            FetchSettles(res, read, j)
    \/ DelayElapses
    \/ Settle

SpecClient == InitClient /\ [][NextClient]_vars

----------------------------------------------------------------------------
(* SpecCourses: one listCourses of the Canvas client, page by page, against *)
(* an upstream that serves a chain of pages in the order it is asked        *)

\* at most MaxPages pages in a chain
MaxPages == 3
ArrayBodies == {ArrayBody(<<>>), ArrayBody(<<1>>), ArrayBody(<<2, 1>>)}
PageBodies == ArrayBodies \cup {EmptyBody, MalformedBody}
\* the chains as far as they are ever asked for: no page follows one whose
\* body is no array
Chains ==
    UNION {{c \o <<b>> : c \in [1..(n - 1) -> ArrayBodies], b \in PageBodies} :
              n \in 1..MaxPages}
\* a Link header with the next relation alone, or the one Canvas sends:
\* current, next, first, last; or with a next link that names another host,
\* or this host and a pathname that starts with ///
LinkStyles == {"next", "canvas", "foreign", "slashes"}
CourseRetries == {0, 1}
\* '/users/self/profile'
ProfilePath == RootedPath(<<"users", "self", "profile">>, "")
ProfileBodies == {ObjectBody(42), EmptyBody, MalformedBody}

\* page=k&per_page=50
PageQuery(k) ==
    <<"page=1&per_page=50", "page=2&per_page=50", "page=3&per_page=50",
      "page=4&per_page=50", "page=5&per_page=50">>[k]
\* https://canvas.test/api/v1/courses?page=k&per_page=50
CoursePage(k) == AbsolutePath("canvas.test", <<"api", "v1", "courses">>, PageQuery(k))

\* the Link header of page k of n: page k < n carries a next link, page n
\* does not; in the style "self" there is one page, whose next link names the
\* page itself
linkHeaderOf(n, style, k) ==
    LET to == IF style = "foreign"
              THEN AbsolutePath("files.test", <<"api", "v1", "courses">>, PageQuery(k + 1))
              ELSE IF style = "slashes"
              THEN AbsolutePath("canvas.test", <<"", "", "files.test", "courses">>,
                                PageQuery(k + 1))
              ELSE CoursePage(k + 1)
        next == IF k < n THEN <<LinkPart(to, "next")>> ELSE <<>>
    IN  IF style = "self" THEN <<LinkPart(CoursePage(1), "next")>>
        ELSE IF style = "next" THEN next
        ELSE <<LinkPart(CoursePage(k), "current")>> \o next
                 \o <<LinkPart(CoursePage(1), "first"), LinkPart(CoursePage(n), "last")>>

\* the 2xx response the upstream gives to the k-th page request
CourseResponse(chain, style, k) ==
    [body |-> chain[IF style = "self" THEN 1 ELSE k],
     link |-> linkHeaderOf(Len(chain), style, k)]

\* client.listCourses() is called: the first page is requested
CallListCourses(chain, style, R) ==
    /\ lc.pc = "idle"
    /\ rq.pc = "idle"
    /\ lc' = [IdleCourses EXCEPT !.op = "listCourses", !.pc = "page",
                                 !.nextUrl = NextUrl(FirstPage),
                                 !.chain = chain, !.style = style]
    /\ rq' = performRequest(R, FirstPage)
    /\ UNCHANGED <<cfg, now, buckets, win, toolRegistry, toolsRegistry, last, sse, inflight, callers>>

\* performRequest has returned a page: authorizedGetJson parses it, the loop
\* body pushes its items and reads its Link header, and the loop either
\* requests the next page, returns courses or throws; the loop is followed
\* for MaxPages pages
PageReturns ==
    /\ lc.op = "listCourses"
    /\ lc.pc = "page"
    /\ rq.pc = "returned"
    /\ lc.served < MaxPages
    /\ LET got == authorizedGetJson(CourseResponse(lc.chain, lc.style, lc.served + 1))
           pass == listCoursesPass(lc.courses, got.data, got.linkHeader)
           seen == [lc EXCEPT !.served = lc.served + 1,
                              !.calls = lc.calls + rq.attempts,
                              !.failed = lc.failed + rq.attempts - 1]
       IN  IF got.threw \/ pass.threw
           THEN /\ lc' = [seen EXCEPT !.pc = "raised",
                                      !.thrown = IF got.threw THEN "Error" ELSE "TypeError"]
                /\ rq' = IdleRequest
           ELSE IF pass.nextUrl.defined
           THEN /\ lc' = [seen EXCEPT !.courses = pass.courses, !.nextUrl = pass.nextUrl]
                /\ rq' = performRequest(rq.maxRetries, pass.nextUrl.path)
           ELSE /\ lc' = [seen EXCEPT !.pc = "returned", !.courses = pass.courses,
                                      !.nextUrl = NoNextUrl]
                /\ rq' = IdleRequest
    /\ UNCHANGED <<cfg, now, buckets, win, toolRegistry, toolsRegistry, last, sse, inflight, callers>>

\* client.getCurrentUser() is called: the profile is requested
CallGetCurrentUser(body, R) ==
    /\ lc.pc = "idle"
    /\ rq.pc = "idle"
    /\ lc' = [IdleCourses EXCEPT !.op = "getCurrentUser", !.pc = "page", !.chain = <<body>>]
    /\ rq' = performRequest(R, ProfilePath)
    /\ UNCHANGED <<cfg, now, buckets, win, toolRegistry, toolsRegistry, last, sse, inflight, callers>>

\* performRequest has returned the profile: authorizedGetJson parses it and
\* getCurrentUser returns the data, or the parse error is thrown
ProfileReturns ==
    /\ lc.op = "getCurrentUser"
    /\ lc.pc = "page"
    /\ rq.pc = "returned"
    /\ LET got == authorizedGetJson(CourseResponse(lc.chain, lc.style, 1))
           seen == [lc EXCEPT !.served = lc.served + 1,
                              !.calls = lc.calls + rq.attempts,
                              !.failed = lc.failed + rq.attempts - 1]
       IN  lc' = IF got.threw THEN [seen EXCEPT !.pc = "raised", !.thrown = "Error"]
                 ELSE [seen EXCEPT !.pc = "returned", !.data = got.data]
    /\ rq' = IdleRequest
    /\ UNCHANGED <<cfg, now, buckets, win, toolRegistry, toolsRegistry, last, sse, inflight, callers>>

\* performRequest has thrown: the CanvasHttpError leaves authorizedGetJson and
\* the operation as it is
PageRaises ==
    /\ lc.pc = "page"
    /\ rq.pc = "raised"
    /\ lc' = [lc EXCEPT !.pc = "raised", !.calls = lc.calls + rq.attempts,
                        !.failed = lc.failed + rq.attempts,
                        !.thrown = "CanvasHttpError"]
    /\ rq' = IdleRequest
    /\ UNCHANGED <<cfg, now, buckets, win, toolRegistry, toolsRegistry, last, sse, inflight, callers>>

\* the caller has its courses or its error; the client is called again
SettleCourses ==
    /\ lc.pc \in {"returned", "raised"}
    /\ lc' = IdleCourses
    /\ UNCHANGED <<cfg, now, buckets, win, toolRegistry, toolsRegistry, last, rq, sse, inflight, callers>>

InitCourses == InitWith({DefaultConfig})

NextCourses ==
    \/ \E chain \in Chains, style \in LinkStyles, R \in CourseRetries :
          CallListCourses(chain, style, R)
    \/ \E body \in ProfileBodies, R \in CourseRetries : CallGetCurrentUser(body, R)
    \/ \E res \in {NetworkError, Responded(200, NoHint), Responded(503, NoHint),
                   Responded(404, NoHint)},
          read \in {ReadText(BodyText(<<"n", "o">>)), Unread}, j \in 0..(JitterSteps - 1) :
            FetchSettles(res, read, j)
    \/ DelayElapses
    \/ PageReturns
    \/ ProfileReturns
    \/ PageRaises
    \/ SettleCourses

SpecCourses == InitCourses /\ [][NextCourses]_vars

----------------------------------------------------------------------------
(* SpecStream: GET /mcp/stream of two clients through the gates, the        *)
(* heartbeat timers, client disconnects and server.close()                  *)

Topics ==
    { NoTopic, TopicParam("string", "undefined"), TopicParam("array", "string"),
      TopicParam("array", "object"), TopicParam("object", "undefined") }

\* GET /mcp/stream of client c, who has no stream yet: the gates, the topic
\* check, and the stream opened with its first two writes and its timer
GetStream(c, headers, topicParam) ==
    LET gates == runMiddlewares(mcpMiddlewares(sharedSecretConfig(cfg), rateLimitConfig(cfg)), 1,
                                sharedSecretConfig(cfg), rateLimitConfig(cfg),
                                buckets, c, headers, now)
        limited == \E i \in 1..Len(gates.ran) : gates.ran[i] = "rateLimit"
        opens == gates.next /\ ~invalidTopic(topicParam)
    IN  /\ sse.listening
        /\ sse.streams[c].state = "none"
        /\ buckets' = gates.buckets
        /\ win' = [win EXCEPT ![c] =
                     IF limited
                     THEN noteLimited(win[c], now, cfg.windowMs, cfg.maxRequests + 1,
                                      gates.next)
                     ELSE win[c]]
        /\ last' = [NoCall EXCEPT
                      !.op = "stream", !.client = c, !.headers = headers, !.t = now,
                      !.topic = topicParam, !.ran = gates.ran, !.handled = gates.next,
                      !.http = IF ~gates.next THEN gates.rejected
                               ELSE IF invalidTopic(topicParam)
                               THEN HttpResponse(400,
                                        resJson(createErrorResponse(JNull, -32600,
                                            <<"Invalid topic parameter.">>, NoData)), 0)
                               ELSE HttpResponse(200, NoBody, 0)]
        /\ sse' = IF opens THEN [sse EXCEPT !.streams[c] = openStream(now)] ELSE sse
        /\ UNCHANGED <<cfg, now, toolRegistry, toolsRegistry, rq, lc, inflight, callers>>

\* the heartbeat timer of c's stream fires
Heartbeat(c) ==
    /\ sse.streams[c].heartbeat = "armed"
    /\ sse.streams[c].due = now
    /\ sse' = [sse EXCEPT !.streams[c] = heartbeatFires(sse.streams[c], now)]
    /\ UNCHANGED <<cfg, now, buckets, win, toolRegistry, toolsRegistry, last, rq, lc, inflight, callers>>

\* the client closes the connection: req emits 'close'
ClientDisconnects(c) ==
    /\ sse.streams[c].state = "open"
    /\ sse' = [sse EXCEPT !.streams[c] =
                  [removeClient(sse.streams[c]) EXCEPT !.state = "disconnected"]]
    /\ UNCHANGED <<cfg, now, buckets, win, toolRegistry, toolsRegistry, last, rq, lc, inflight, callers>>

\* server.close() of the server startHttpServer returned
ServerClose ==
    /\ sse.listening
    /\ sse' = [listening |-> FALSE, streams |-> [c \in Clients |-> closeClient(sse.streams[c])]]
    /\ UNCHANGED <<cfg, now, buckets, win, toolRegistry, toolsRegistry, last, rq, lc, inflight, callers>>

\* half a heartbeat interval passes; a timer that is due fires first
StreamTick ==
    /\ now + HEARTBEAT_MS \div 2 <= MaxTicks * (HEARTBEAT_MS \div 2)
    /\ \A c \in Clients : sse.streams[c].heartbeat = "armed" => sse.streams[c].due > now
    /\ now' = now + HEARTBEAT_MS \div 2
    /\ UNCHANGED <<cfg, buckets, win, toolRegistry, toolsRegistry, last, rq, lc, sse, inflight, callers>>

\* the secret guard on, the limiter on or off
InitStream == InitWith({c \in GateConfigs : c.transportSecretSet})

NextStream ==
    \/ \E c \in Clients, headers \in {NoHeader, Header("x-mcp-transport-secret", TransportSecret)},
          topicParam \in Topics : GetStream(c, headers, topicParam)
    \/ \E c \in Clients : Heartbeat(c)
    \/ \E c \in Clients : ClientDisconnects(c)
    \/ ServerClose
    \/ StreamTick

SpecStream == InitStream /\ [][NextStream]_vars

----------------------------------------------------------------------------
(* SpecBurst: the calls of one client through the limiter over time, with   *)
(* the times of the calls let through kept for one window length            *)

InitBurst ==
    InitWatching({c \in Configs : c.rateLimitEnabled /\ ~c.rateLimitBypass
                                    /\ ~c.transportSecretSet}, {"10.0.0.1"})

NextBurst ==
    \/ Tick
    \/ \E out \in PostOutcomes("10.0.0.1", NoHeader, PingCall) :
          PostMcp("10.0.0.1", NoHeader, PingCall, out)

SpecBurst == InitBurst /\ [][NextBurst]_vars

----------------------------------------------------------------------------
(* SpecConcurrent: POST /mcp calls of two clients under way together.  A    *)
(* call is received (express.json has parsed its body), then the route's    *)
(* handlers run in one turn of the event loop up to handleMcpRequest's      *)
(* await, then the dispatcher's promise settles and the response is written.*)
(* The limiter is on; createHttpServer takes any rateLimitConfig.           *)

\* the calls the clients make, all together
MaxCalls == 3

RECURSIVE Made(_)
Made(clients) ==
    IF clients = {} THEN 0
    ELSE LET c == CHOOSE k \in clients : TRUE
         IN  inflight[c].made + Made(clients \ {c})

ServerOptions ==
    { [rateLimitEnabled |-> TRUE, rateLimitBypass |-> FALSE, windowMs |-> w, maxRequests |-> m,
       transportSecretSet |-> FALSE, transportSecretBypass |-> FALSE] :
        w \in Windows, m \in 0..MaxLimit }

\* a call of client c arrives and its body is parsed
Receive(c) ==
    /\ Made(Clients) < MaxCalls
    /\ inflight' = [inflight EXCEPT ![c].received = @ + 1, ![c].made = @ + 1]
    /\ UNCHANGED <<cfg, now, buckets, win, toolRegistry, toolsRegistry, last, rq, lc, sse, callers>>

\* the handlers of app.post('/mcp') for one received call of client c: the
\* middlewares, and handleMcpRequest as far as its await
Admit(c) ==
    LET gates == runMiddlewares(mcpMiddlewares(sharedSecretConfig(cfg), rateLimitConfig(cfg)), 1,
                                sharedSecretConfig(cfg), rateLimitConfig(cfg),
                                buckets, c, NoHeader, now)
        limited == \E i \in 1..Len(gates.ran) : gates.ran[i] = "rateLimit"
    IN  /\ inflight[c].received > 0
        /\ buckets' = gates.buckets
        /\ win' = [win EXCEPT ![c] =
                     IF limited
                     THEN noteLimited(win[c], now, cfg.windowMs, MaxCalls, gates.next)
                     ELSE win[c]]
        /\ inflight' = [inflight EXCEPT ![c].received = @ - 1,
                                        ![c].dispatched = IF gates.next THEN @ + 1 ELSE @]
        /\ last' = [NoCall EXCEPT !.op = "admit", !.client = c, !.t = now,
                                  !.body = StringBody(PingCall),
                                  !.http = gates.rejected, !.response = gates.rejected.body,
                                  !.ran = gates.ran, !.handled = gates.next]
        /\ UNCHANGED <<cfg, now, toolRegistry, toolsRegistry, rq, lc, sse, callers>>

\* the dispatcher's promise settles for one dispatched call of client c and
\* handleMcpRequest writes the response
Respond(c, out) ==
    LET h == handleMcpRequest(expressJson(PingCall).value, toolRegistry, out)
    IN  /\ inflight[c].dispatched > 0
        /\ inflight' = [inflight EXCEPT ![c].dispatched = @ - 1]
        /\ last' = [NoCall EXCEPT !.op = "respond", !.client = c, !.t = now,
                                  !.body = StringBody(PingCall),
                                  !.http = h.http, !.response = h.http.body,
                                  !.handled = TRUE, !.invoked = h.invoked, !.arg = h.arg,
                                  !.out = out]
        /\ UNCHANGED <<cfg, now, buckets, win, toolRegistry, toolsRegistry, rq, lc, sse, callers>>

InitConcurrent == InitWith(ServerOptions)

NextConcurrent ==
    \/ Tick
    \/ \E c \in Clients : Receive(c)
    \/ \E c \in Clients : Admit(c)
    \/ \E c \in Clients : Respond(c, Returns(Undefined))

SpecConcurrent == InitConcurrent /\ [][NextConcurrent]_vars

----------------------------------------------------------------------------
(* SpecTimers: performRequest of two callers under way together, with the   *)
(* timer of each attempt firing at any time while it is armed              *)

\* caller i calls performRequest(path) with maxRetries = R
CallerStarts(i, R) ==
    /\ callers[i].pc = "idle"
    /\ callers' = [callers EXCEPT ![i] = performRequest(R, ProfilePath)]
    /\ UNCHANGED <<cfg, now, buckets, win, toolRegistry, toolsRegistry, last, rq, lc, sse, inflight>>

\* the fetch of caller i settles before its timer fires
CallerFetchSettles(i, res, read) ==
    /\ callers[i].pc = "fetch"
    /\ settles(callers[i], res, read, 0, now)
    /\ callers' = [callers EXCEPT ![i] = afterFetch(callers[i], res, read, 0, now)]
    /\ UNCHANGED <<cfg, now, buckets, win, toolRegistry, toolsRegistry, last, rq, lc, sse, inflight>>

\* the timer of the attempt of caller i fires: controller.abort().  A fetch in
\* flight rejects with an AbortError and the catch clause runs; during the
\* delay, which finally has not yet followed, the fetch has settled already.
TimeoutFires(i) ==
    LET r == callers[i]
        fired == [r EXCEPT !.timer = "fired", !.aborted = TRUE,
                           !.fired = r.fired \cup {r.attempts}]
    IN  /\ r.timer = "armed"
        /\ callers' = [callers EXCEPT ![i] =
                          IF r.pc = "fetch" THEN afterFetch(fired, Aborted, Unread, 0, now)
                          ELSE fired]
        /\ UNCHANGED <<cfg, now, buckets, win, toolRegistry, toolsRegistry, last, rq, lc, sse, inflight>>

\* the delay of caller i elapses
CallerDelayElapses(i) ==
    /\ callers[i].pc = "wait"
    /\ callers' = [callers EXCEPT ![i] = afterDelay(callers[i])]
    /\ UNCHANGED <<cfg, now, buckets, win, toolRegistry, toolsRegistry, last, rq, lc, sse, inflight>>

\* caller i has its response or its error
CallerSettles(i) ==
    /\ callers[i].pc \in {"returned", "raised"}
    /\ callers' = [callers EXCEPT ![i] = IdleRequest]
    /\ UNCHANGED <<cfg, now, buckets, win, toolRegistry, toolsRegistry, last, rq, lc, sse, inflight>>

InitTimers == InitWith({DefaultConfig})

NextTimers ==
    \/ \E i \in Callers, R \in CourseRetries : CallerStarts(i, R)
    \/ \E i \in Callers,
          res \in {NetworkError, Responded(200, NoHint), Responded(503, NoHint),
                   Responded(404, NoHint)},
          read \in {ReadText(BodyText(<<"n", "o">>)), Unread} :
            CallerFetchSettles(i, res, read)
    \/ \E i \in Callers : TimeoutFires(i)
    \/ \E i \in Callers : CallerDelayElapses(i)
    \/ \E i \in Callers : CallerSettles(i)

SpecTimers == InitTimers /\ [][NextTimers]_vars

----------------------------------------------------------------------------
(* SpecCoursesLive: listCourses against upstreams whose chain of pages ends *)
(* and against one whose page names itself as the next, where every fetch   *)
(* settles, every delay elapses and every continuation runs                 *)

LiveChains ==
    UNION {{c \o <<b>> : c \in [1..(n - 1) -> {ArrayBody(<<1>>)}],
                         b \in {ArrayBody(<<1>>), MalformedBody}} : n \in 1..MaxPages}

\* some fetch outcome: the fetch in flight settles
FetchCompletes ==
    \E res \in {NetworkError, Responded(200, NoHint), Responded(503, NoHint),
                Responded(404, NoHint)},
       read \in {ReadText(BodyText(<<"n", "o">>)), Unread} :
        FetchSettles(res, read, 0)

InitCoursesLive == InitWith({DefaultConfig})

NextCoursesLive ==
    \/ \E chain \in LiveChains, style \in {"next", "self"}, R \in CourseRetries :
          CallListCourses(chain, style, R)
    \/ FetchCompletes
    \/ DelayElapses
    \/ PageReturns
    \/ PageRaises
    \/ SettleCourses

SpecCoursesLive ==
    /\ InitCoursesLive /\ [][NextCoursesLive]_vars
    /\ WF_vars(FetchCompletes) /\ WF_vars(DelayElapses)
    /\ WF_vars(PageReturns) /\ WF_vars(PageRaises)

----------------------------------------------------------------------------
(* Properties *)

\* what the properties call a valid envelope, a notification, a valid header
ValidEnvelope(p) ==
    /\ p.kind = "object"
    /\ p.jsonrpc = Str("2.0")
    /\ p.method.t = "string" /\ p.method.v # ""
    /\ p.id.t \in {"undefined", "string", "number", "null"}
Registered(p) == p.method.v \in Methods /\ toolRegistry[p.method.v].registered
ParamsValid(p) == p.params.t \in {"undefined", "object"}
Ran(name) == \E i \in 1..Len(last.ran) : last.ran[i] = name
SecretOn == cfg.transportSecretSet /\ ~cfg.transportSecretBypass
RateOn == cfg.rateLimitEnabled /\ ~cfg.rateLimitBypass
GoodHeader(h) ==
    /\ h.present
    /\ h.name \in {"x-mcp-transport-secret", "X-Mcp-Transport-Secret", "X-MCP-TRANSPORT-SECRET"}
    /\ h.value = TransportSecret
RpcDecoded == normaliseBody(last.body)
PostDecoded == expressJson(last.body.text)

\* C1: with window w and limit m >= 1, the n-th call a client makes in one
\* window (the window opened by its first call, or by its first call at or
\* after the previous resetAt) is allowed when n <= m and rejected with 429
\* when n > m; the first call at t >= resetAt opens a new window and is
\* allowed.
C1_RateLimitWindow ==
    (last.op = "post" /\ Ran("rateLimit")) =>
        LET n == win[last.client].n
            b == buckets[last.client]
        IN  /\ b.exists /\ b.resetAt = win[last.client].start + cfg.windowMs
            /\ (n <= cfg.maxRequests => last.handled /\ last.http.status # 429)
            /\ (n > cfg.maxRequests => ~last.handled /\ last.http.status = 429)

C1_Witness ==
    /\ last.op = "post" /\ Ran("rateLimit")
    /\ cfg.maxRequests > 1
    /\ win[last.client].n = cfg.maxRequests + 1
    /\ win[last.client].start > 0
    /\ last.http.status = 429

\* C2: a request that passes envelope validation and has no id gets no
\* response from handleRpc (null) whether the method is missing, the params
\* are invalid, the handler throws or the handler succeeds; and the handler
\* is invoked when the method is registered and the params are valid.
C2_NotificationSilent ==
    (/\ last.op = "rpc" /\ RpcDecoded.ok /\ ValidEnvelope(RpcDecoded.value)
     /\ RpcDecoded.value.id.t = "undefined") =>
        /\ last.response = NoResponse
        /\ (Registered(RpcDecoded.value) /\ ParamsValid(RpcDecoded.value) => last.invoked)

C2_Witness ==
    /\ last.op = "rpc" /\ RpcDecoded.ok /\ ValidEnvelope(RpcDecoded.value)
    /\ RpcDecoded.value.id.t = "undefined"
    /\ last.invoked /\ last.out.throws
    /\ last.response = NoResponse

\* C3: through POST /mcp with handleRpc as the dispatcher, nothing is written
\* as JSON-RPC result or error for a notification that reaches the handler.
C3_TransportSilentOnNotification ==
    (/\ last.op = "post" /\ last.handled
     /\ PostDecoded.ok /\ ValidEnvelope(PostDecoded.value)
     /\ PostDecoded.value.id.t = "undefined") =>
        last.http.body = NoBody

\* C4: the error code is that of the first failing stage: an undecodable
\* body gives -32700; a decoded payload with an id that is no valid envelope
\* gives -32600; a valid envelope with an id and an unregistered method
\* gives -32601; with a registered method and params failing the schema
\* -32602; and none of these codes when all four stages pass.
C4_ErrorCodeByStage ==
    last.op = "rpc" =>
        LET d == RpcDecoded
            p == d.value
            e == last.response.error
            hasId == p.kind = "object" /\ p.id.t # "undefined"
        IN  /\ (~d.ok => e.present /\ e.code = -32700)
            /\ (d.ok /\ hasId /\ ~ValidEnvelope(p) => e.present /\ e.code = -32600)
            /\ (d.ok /\ hasId /\ ValidEnvelope(p) /\ ~Registered(p)
                    => e.present /\ e.code = -32601)
            /\ (d.ok /\ hasId /\ ValidEnvelope(p) /\ Registered(p) /\ ~ParamsValid(p)
                    => e.present /\ e.code = -32602)
            /\ (d.ok /\ hasId /\ ValidEnvelope(p) /\ Registered(p) /\ ParamsValid(p)
                    => last.invoked /\ (e.present => e.code = -32603))

C4_Witness ==
    /\ last.op = "rpc" /\ last.body.form = "string"
    /\ last.response.error.present /\ last.response.error.code = -32602

\* C5: when the handler throws, the response is a -32603 response that is the
\* same whatever was thrown.
C5_ThrownFailureNotEchoed ==
    (last.op = "rpc" /\ last.invoked /\ last.out.throws /\ last.response # NoResponse) =>
        /\ last.response.error.present /\ last.response.error.code = -32603
        /\ \A o \in {x \in HandlerOutcomes : x.throws} :
              handleRpcImpl(last.body, toolRegistry, o).response = last.response

\* C6: with a secret configured, every call that reaches the guard passes it
\* exactly when it carries the configured header (in any case of the name)
\* with the secret as its value; every other call is answered 401.
C6_SecretGuard ==
    last.op = "post" =>
        LET passed == last.handled \/ Len(last.ran) > 1
        IN  /\ (SecretOn /\ PostDecoded.ok => Ran("sharedSecret"))
            /\ (Ran("sharedSecret") =>
                    /\ SecretOn
                    /\ (passed <=> GoodHeader(last.headers))
                    /\ (~passed => last.http.status = 401 /\ ~last.handled))

C6_Witness ==
    /\ last.op = "post" /\ Ran("sharedSecret")
    /\ last.headers.name = "X-MCP-TRANSPORT-SECRET"
    /\ last.handled

\* C7: with both gates configured the guard is the first middleware run, and
\* a call the guard rejects leaves every bucket as it was.
C7_RejectedBySecretKeepsBuckets ==
    [][ /\ (last'.op = "post" /\ Len(last'.ran) > 0 /\ SecretOn /\ RateOn
                => last'.ran[1] = "sharedSecret")
        /\ (last'.op = "post" /\ last'.http.status = 401 => buckets' = buckets) ]_vars

C7_Witness ==
    /\ last.op = "post" /\ last.http.status = 401
    /\ SecretOn /\ RateOn
    /\ ~buckets[last.client].exists
    /\ \E c \in Clients : buckets[c].exists

\* C8: both gates are applied to every POST /mcp call whatever its body: a
\* call without the right secret is answered 401, and a call the guard lets
\* through is counted by the limiter.
C8_GatesBeforeProtocol ==
    last.op = "post" =>
        /\ (SecretOn /\ ~GoodHeader(last.headers) => last.http.status = 401)
        /\ (RateOn /\ (SecretOn => GoodHeader(last.headers)) => Ran("rateLimit"))

\* how an attempt ended, for the properties of the client
RetryableStatus(o) == o.kind = "response" /\ (o.status = 429 \/ o.status >= 500)
FailedByError(o) == o.kind \in {"abort", "network", "bodyAbort"}

\* C9: with maxRetries = R >= 0, performRequest makes at least 1 and at most
\* R + 1 attempts; an attempt is followed by another only if it ended with
\* status 429, a status >= 500 or a timeout or network error (an attempt whose
\* body read is aborted ends with such an error); and the first ok response
\* ends the loop with success.
C9_AttemptBudget ==
    (rq.maxRetries >= 0 /\ rq.pc # "idle") =>
        /\ 1 <= rq.attempts /\ rq.attempts <= rq.maxRetries + 1
        /\ Len(rq.outcomes) <= rq.attempts
        /\ \A i \in 1..Len(rq.outcomes) :
              /\ (i < rq.attempts =>
                      RetryableStatus(rq.outcomes[i]) \/ FailedByError(rq.outcomes[i]))
              /\ (rq.outcomes[i].kind = "response" /\ ok(rq.outcomes[i].status) =>
                      i = Len(rq.outcomes) /\ rq.attempts = i /\ rq.pc = "returned")
        /\ (rq.pc = "returned" =>
                /\ Len(rq.outcomes) = rq.attempts
                /\ rq.outcomes[Len(rq.outcomes)].kind = "response"
                /\ ok(rq.outcomes[Len(rq.outcomes)].status)
                /\ rq.errors = 0)

C9_Witness ==
    /\ rq.pc = "returned" /\ rq.maxRetries = 2 /\ rq.attempts = 2
    /\ Len(rq.outcomes) = 2
    /\ rq.outcomes[1].kind = "response" /\ rq.outcomes[1].status = 429
    /\ rq.outcomes[2].kind = "response" /\ rq.outcomes[2].status = 200

NonRetryableStatus(o) ==
    /\ o.kind \in {"response", "bodyAbort"}
    /\ ~ok(o.status) /\ o.status < 500 /\ o.status # 429

\* C11: an attempt that ends with a response of non-retryable status is the
\* last attempt of the request, whatever budget remains: performRequest
\* raises a CanvasHttpError with that status and makes no further attempt.
C11_NonRetryableIsFatal ==
    \A i \in 1..Len(rq.outcomes) :
        NonRetryableStatus(rq.outcomes[i]) =>
            /\ i = Len(rq.outcomes)
            /\ rq.attempts = i
            /\ rq.pc = "raised"
            /\ rq.error.status = rq.outcomes[i].status

\* C14: in either registry (handleRpc.registerTool of rpc.ts, registerTool of
\* tools/index.ts) registering a name that is already registered throws and
\* leaves the registry as it was, so that a name keeps the first definition
\* registered for it.
C14_RegisterOncePerName ==
    [][ /\ \A m \in Methods :
              toolRegistry[m].registered => toolRegistry'[m] = toolRegistry[m]
        /\ \A m \in ToolNames :
              toolsRegistry[m].registered => toolsRegistry'[m] = toolsRegistry[m]
        /\ (last'.op = "register" /\ toolRegistry[last'.method].registered
                => last'.threw)
        /\ (last'.op = "registerDefinition" /\ toolsRegistry[last'.method].registered
                => last'.threw) ]_vars

\* C15: every response envelope, as handleRpc returns it and as the HTTP
\* transport writes it, has exactly one of the members result and error.
C15_ExactlyOneOfResultAndError ==
    /\ (last.op = "rpc" /\ last.response # NoResponse =>
            (last.response.hasResult <=> ~last.response.error.present))
    /\ (last.op = "post" =>
            (last.http.body.hasResult <=> ~last.http.body.error.present))

\* C16: the limiter rejects only when it is enabled and its bypass flag is
\* not set, and then it does reject the calls over the limit: with the bypass
\* flag set, or the limiter disabled, no call is answered 429 and the limiter
\* is not run, however many calls a client makes.
C16_BypassNeverRejects ==
    last.op = "post" =>
        /\ (last.http.status = 429 => cfg.rateLimitEnabled /\ ~cfg.rateLimitBypass)
        /\ (Ran("rateLimit") => cfg.rateLimitEnabled /\ ~cfg.rateLimitBypass)
        /\ (cfg.rateLimitEnabled /\ ~cfg.rateLimitBypass /\ Ran("rateLimit")
                /\ win[last.client].n > cfg.maxRequests
                    => last.http.status = 429)

C16_Witness ==
    /\ last.op = "post" /\ last.handled /\ last.http.status = 200
    /\ cfg.rateLimitEnabled /\ cfg.rateLimitBypass /\ cfg.maxRequests = 1
    /\ now = 0
    /\ win[last.client].calls >= 2

\* C17: with the limiter enabled and its bypass flag set, a call that is
\* handled has its client's bucket created and counted as when enforcing,
\* and is not rejected.
C17_BypassStillTracks ==
    (last.op = "post" /\ last.handled /\ cfg.rateLimitEnabled /\ cfg.rateLimitBypass) =>
        /\ last.http.status # 429
        /\ buckets[last.client].exists
        /\ buckets[last.client].count >= 1
        /\ buckets[last.client].resetAt > last.t

\* C18: a rejection by the limiter at time t carries Retry-After = r, the
\* least integer >= 1 with r * 1000 >= resetAt - t; and r is 1 or at most
\* the number of seconds, rounded up, of the window.
C18_RetryAfterSeconds ==
    (last.op = "post" /\ last.http.status = 429) =>
        LET d == buckets[last.client].resetAt - last.t
            r == last.http.retryAfter
        IN  /\ r >= 1
            /\ r * 1000 >= d
            /\ (r > 1 => (r - 1) * 1000 < d)
            /\ (r = 1 \/ (r - 1) * 1000 < cfg.windowMs)

C18_Witness ==
    /\ last.op = "post" /\ last.http.status = 429
    /\ buckets[last.client].resetAt - last.t = 1500
    /\ last.http.retryAfter = 2

\* the URL a request for path p is sent to: the path itself when it is an
\* absolute URL, and else the path under https://canvas.test/api/v1/
TargetOf(p) ==
    IF p.form = "absolute" THEN URL(p.host, p.segs, p.search)
    ELSE URL("canvas.test", <<"api", "v1">> \o p.segs, p.search)

\* C12: an attempt that fails by timeout or network error is followed by
\* another attempt while budget remains (it is the i-th attempt with
\* i <= maxRetries); when it is attempt maxRetries + 1, performRequest
\* raises a CanvasHttpError with status 0 and the target URL.
C12_FailureRetriedThenStatusZero ==
    \A i \in 1..Len(rq.outcomes) :
        (rq.maxRetries >= 0 /\ FailedByError(rq.outcomes[i])) =>
            /\ (i <= rq.maxRetries /\ i = Len(rq.outcomes) =>
                    \/ rq.pc = "wait" /\ rq.errors = 0
                    \/ rq.pc = "fetch" /\ rq.attempts = i + 1 /\ rq.errors = 0)
            /\ (i = rq.maxRetries + 1 =>
                    /\ i = Len(rq.outcomes)
                    /\ rq.pc = "raised" /\ rq.errors = 1
                    /\ rq.error.status = 0
                    /\ rq.error.url = TargetOf(rq.path)
                    /\ ~rq.error.snippet.defined)

C12_Witness ==
    /\ rq.pc = "raised" /\ rq.maxRetries = 1 /\ Len(rq.outcomes) = 2
    /\ rq.outcomes[1].kind = "abort" /\ rq.outcomes[2].kind = "network"
    /\ rq.path.form = "relative"
    /\ rq.error.status = 0
    /\ rq.error.url = URL("canvas.test", <<"api", "v1", "courses">>, "per_page=50")

\* the snippet of the error raised for a response whose body was read as text
SnippetRaised ==
    /\ rq.pc = "raised" /\ rq.error.status > 0
    /\ ~rq.body.isNull /\ rq.error.snippet.defined

C20_HintHonoured ==
    (rq.pc = "wait" /\ rq.outcomes[Len(rq.outcomes)].kind = "response") =>
        LET hint == rq.hint
        IN  /\ (hint.kind = "seconds" /\ hint.n >= 0 => rq.waitMs = hint.n * 1000)
            /\ (hint.kind = "date" => rq.waitMs = hint.n - now)

\* the items of a chain of pages, page after page
RECURSIVE Flatten(_)
Flatten(chain) == IF chain = <<>> THEN <<>> ELSE Head(chain).items \o Flatten(Tail(chain))
ChainOfPages(chain) == \A k \in 1..Len(chain) : chain[k].form = "array"

\* C13: for an upstream that serves a chain of n pages (page i < n carries a
\* next link, page n does not) with every fetch succeeding, listCourses makes
\* exactly n upstream calls and returns the concatenation of the pages' items
\* in page order and, within a page, in response order.
C13_PagesConcatenated ==
    (lc.pc \in {"returned", "raised"} /\ ChainOfPages(lc.chain) /\ lc.failed = 0) =>
        /\ lc.pc = "returned"
        /\ lc.calls = Len(lc.chain)
        /\ lc.courses = Flatten(lc.chain)

\* two items and a next link, then one item: three items, two calls
C13_Witness ==
    /\ lc.pc = "returned"
    /\ lc.failed = 0
    /\ lc.style = "canvas"
    /\ lc.chain = <<ArrayBody(<<2, 1>>), ArrayBody(<<1>>)>>
    /\ lc.calls = 2
    /\ lc.courses = <<2, 1, 1>>

\* C21: without a retry hint, the wait before the k-th retry of one request
\* lies in [base * 2^(k-1), 1.25 * base * 2^(k-1)], after an error status as
\* after a timeout or a network error.
C21_BackoffRange ==
    (rq.pc = "wait" /\ rq.hint.kind = "none") =>
        LET k == rq.attempt + 1
            lower == DEFAULT_RETRY_DELAY * 2^(k - 1)
        IN  /\ Len(rq.outcomes) = k
            /\ lower <= rq.waitMs
            /\ 4 * rq.waitMs <= 5 * lower

\* the second retry, after a timeout, waits more than 500 ms
C21_Witness ==
    /\ rq.pc = "wait" /\ rq.hint.kind = "none"
    /\ rq.attempt = 1
    /\ rq.outcomes[1].kind = "response" /\ rq.outcomes[2].kind = "abort"
    /\ rq.waitMs > 2 * DEFAULT_RETRY_DELAY

\* what POST /mcp shows of the two validators: isJSONRPCRequest rejects with
\* HTTP 400, jsonRpcRequestSchema with a -32600 response written by the
\* dispatcher's caller
TransportAccepted == last.http.status # 400
SchemaAccepted == ~(last.http.body.error.present /\ last.http.body.error.code = -32600)

\* C22: each validator accepts a decoded payload exactly when its jsonrpc is
\* "2.0", its method is a non-empty string and its id is absent, a string, a
\* number or null: the transport's isJSONRPCRequest, and jsonRpcRequestSchema
\* of handleRpc for the payloads that reach it.
C22_ValidatorsAgree ==
    (last.op = "post" /\ last.handled) =>
        /\ TransportAccepted <=> ValidEnvelope(PostDecoded.value)
        /\ TransportAccepted => (SchemaAccepted <=> ValidEnvelope(PostDecoded.value))

\* C23: a decoded payload that is no valid envelope and carries no id gets no
\* response from handleRpc.
C23_InvalidWithoutIdSilent ==
    (/\ last.op = "rpc" /\ RpcDecoded.ok
     /\ ~ValidEnvelope(RpcDecoded.value)
     /\ RpcDecoded.value.id.t = "undefined") =>
        last.response = NoResponse

\* an attempt that ended in a failure the client retries while budget remains
Transient(o) == o.kind \in {"network", "abort"} \/ (o.kind = "response" /\ o.status \in {429, 503})

\* C24: in listCourses each page fetch has its own budget of maxRetries + 1
\* attempts, whatever earlier pages used: a page's request is given up on
\* transient failures only after maxRetries + 1 attempts of its own, and while
\* a later page is fetched and retried, and in the result, the items of the
\* pages already read are kept in order.
C24_PerPageBudget ==
    /\ lc.pc = "page" =>
          /\ rq.attempts <= rq.maxRetries + 1
          /\ ((rq.pc = "raised" /\ \A i \in 1..Len(rq.outcomes) : Transient(rq.outcomes[i]))
                  => Len(rq.outcomes) = rq.maxRetries + 1)
          /\ lc.courses = Flatten(SubSeq(lc.chain, 1, lc.served))
    /\ (lc.pc = "returned" /\ ChainOfPages(lc.chain)) =>
          /\ lc.courses = Flatten(lc.chain)
          /\ lc.calls = Len(lc.chain) + lc.failed

\* two pages, each read at its second attempt
C24_Witness ==
    /\ lc.pc = "returned"
    /\ lc.chain = <<ArrayBody(<<2, 1>>), ArrayBody(<<1>>)>>
    /\ lc.failed = 2 /\ lc.calls = 4
    /\ lc.courses = <<2, 1, 1>>

\* C25: for every page after the first, the request listCourses issues goes
\* to the path and query of the next link of the page before it.
C25_NextPageTargetsLink ==
    (lc.pc = "page" /\ lc.served >= 1 /\ rq.pc # "idle") =>
        LET link == newURL(CoursePage(lc.served + 1), baseUrl)
        IN  /\ rq.targetUrl.pathname = link.pathname
            /\ rq.targetUrl.search = link.search

\* the last response the operation consumed, a 2xx response
LastBody == lc.chain[lc.served]
Consumed == lc.pc \in {"returned", "raised"} /\ lc.thrown # "CanvasHttpError" /\ lc.served >= 1

\* C26 as stated: a 2xx response whose body cannot be decoded as JSON, being
\* empty or malformed, makes the client raise a parsing error that is no
\* CanvasHttpError, and no fetch is made after it.
C26_UndecodableRaisesParseError ==
    (Consumed /\ LastBody.form \in {"empty", "malformed"}) =>
        /\ lc.pc = "raised" /\ lc.thrown = "Error"
        /\ lc.calls = lc.served + lc.failed

\* C26 (amended): a 2xx response whose body is not empty and cannot be decoded
\* as JSON makes the client raise a parsing error that is no CanvasHttpError,
\* and no fetch is made after it; an empty body is taken as the object {}
\* with no parsing error: getCurrentUser returns it, and listCourses, which
\* cannot spread it, raises a TypeError, again with no fetch after it.
C26_MalformedRaisesParseError ==
    /\ (Consumed /\ LastBody.form = "malformed") =>
          /\ lc.pc = "raised" /\ lc.thrown = "Error"
          /\ lc.calls = lc.served + lc.failed
    /\ (Consumed /\ LastBody.form = "empty") =>
          /\ lc.thrown # "Error"
          /\ lc.calls = lc.served + lc.failed
          /\ (lc.op = "getCurrentUser" => lc.pc = "returned" /\ lc.data = EmptyObject)
          /\ (lc.op = "listCourses" => lc.pc = "raised" /\ lc.thrown = "TypeError")

\* the second page of courses does not parse, after a retry of its fetch
C26_Witness ==
    /\ lc.op = "listCourses" /\ lc.pc = "raised" /\ lc.thrown = "Error"
    /\ lc.served = 2 /\ LastBody.form = "malformed"
    /\ lc.failed = 1 /\ lc.calls = 3

\* the writes of a stream: the marker first and then pings only, the first
\* ping with the marker and each later one HEARTBEAT_MS after the one before
WritesInOrder(s) ==
    /\ s.writes[1].what = ": stream established"
    /\ s.writes[2].t = s.writes[1].t
    /\ \A i \in 2..Len(s.writes) : s.writes[i].what = ": ping"
    /\ \A i \in 3..Len(s.writes) : s.writes[i].t = s.writes[i - 1].t + HEARTBEAT_MS

\* a stream in any state: written in order; while it is open the next ping is
\* armed and not overdue; once the client has disconnected or the server has
\* ended it, its timer is cleared
StreamLifecycle(s) ==
    /\ s.state # "none" => Len(s.writes) >= 2 /\ WritesInOrder(s)
    /\ s.state = "open" =>
          /\ s.heartbeat = "armed"
          /\ s.due = s.writes[Len(s.writes)].t + HEARTBEAT_MS
          /\ s.due >= now
    /\ s.state \in {"disconnected", "ended"} => s.heartbeat = "cleared"

\* from one state to the next: nothing is written to a stream that is no
\* longer open, and server.close() ends every open stream
StreamStep ==
    \A c \in Clients :
        /\ sse.streams[c].state \in {"disconnected", "ended"}
              => sse'.streams[c] = sse.streams[c]
        /\ (sse.listening /\ ~sse'.listening /\ sse.streams[c].state = "open")
              => sse'.streams[c].state = "ended"

C28_HandlerOnlyAfterAllStages ==
    last.op = "rpc" =>
        LET p == RpcDecoded.value
        IN  /\ last.invoked <=>
                  (RpcDecoded.ok /\ ValidEnvelope(p) /\ Registered(p) /\ ParamsValid(p))
            /\ last.invoked =>
                  last.arg = IF p.params.t = "undefined" THEN Undefined ELSE Obj("{}")
            /\ ~last.invoked => last.arg = Undefined
            /\ (last.response.error.present /\ last.response.error.code = -32602) =>
                  /\ ~last.invoked
                  /\ last.response.error.data = ZodError

\* the handler is given {} for the params {x:1}
C28_Witness ==
    /\ last.op = "rpc" /\ last.invoked
    /\ RpcDecoded.value.params = Obj("{x:1}")
    /\ last.arg = Obj("{}")

\* C29: a response of handleRpc carries the id of the request it answers when
\* the decoded payload has an id that is a string, a number or null, also
\* when the envelope is otherwise invalid; its id is null when there is none.
C29_IdEchoed ==
    (last.op = "rpc" /\ last.response # NoResponse) =>
        LET p == RpcDecoded.value
            resolvable == /\ RpcDecoded.ok /\ p.kind = "object"
                          /\ p.id.t \in {"string", "number", "null"}
        IN  last.response.id = IF resolvable THEN p.id ELSE JNull

\* the calls of client c the limiter let through in the interval from from
\* to now, its ends included or its start excluded
AllowedSince(c, from) == Len(SelectSeq(win[c].allowed, LAMBDA x : x >= from))
AllowedAfter(c, from) == Len(SelectSeq(win[c].allowed, LAMBDA x : x > from))

Admitted(c) == inflight'[c].received < inflight[c].received

\* C31: every existing bucket has 1 <= count <= max(1, maxRequests) and
\* resetAt = the time of the call that created it + windowMs; and a call at t
\* with no bucket or with t >= resetAt replaces the bucket by (count = 1,
\* resetAt = t + windowMs) and is allowed, whatever the count was and also
\* when maxRequests < 1.
C31_BucketInvariant ==
    /\ [](\A c \in Clients :
            buckets[c].exists =>
                /\ 1 <= buckets[c].count
                /\ buckets[c].count <= Max(1, cfg.maxRequests)
                /\ win[c].open
                /\ buckets[c].resetAt = win[c].start + cfg.windowMs)
    /\ [][\A c \in Clients :
            (Admitted(c) /\ (~buckets[c].exists \/ now >= buckets[c].resetAt)) =>
                /\ buckets'[c] = [exists |-> TRUE, count |-> 1, resetAt |-> now + cfg.windowMs]
                /\ last'.handled /\ last'.http.status # 429]_vars

C31_Witness ==
    /\ cfg.maxRequests = 0
    /\ last.op = "admit" /\ last.handled /\ last.t = now /\ now > 0
    /\ win[last.client].n = 1 /\ win[last.client].start = now
    /\ buckets[last.client] = [exists |-> TRUE, count |-> 1, resetAt |-> now + cfg.windowMs]
    /\ inflight[last.client].made > 1

C33_LimiterFrame ==
    [][\A c \in Clients :
          Admitted(c) =>
              /\ \A o \in Clients \ {c} : buckets'[o] = buckets[o]
              /\ (last'.http.status = 429 =>
                      /\ buckets'[c] = buckets[c]
                      /\ buckets[c].exists /\ now < buckets[c].resetAt)]_vars

C33_Witness ==
    /\ last.op = "admit" /\ last.http.status = 429 /\ last.client = "10.0.0.1"
    /\ buckets["10.0.0.1"].exists /\ buckets["10.0.0.1"].resetAt - cfg.windowMs < last.t
    /\ ~buckets["10.0.0.2"].exists
    /\ inflight["10.0.0.2"].received > 0

\* the page listCourses is waiting for is page N: N - 1 pages are parsed and
\* the request under way asks for the page after them
AwaitsPage(N) ==
    /\ lc.served = N - 1
    /\ rq.pc \in {"fetch", "wait", "returned", "raised"}
    /\ rq.path = lc.nextUrl.path
    /\ rq.targetUrl.search = IF N = 1 THEN FirstPage.search ELSE PageQuery(N)

\* a step in which fetch is called
Issues == rq'.pc = "fetch" /\ rq' # rq

\* C34: within one listCourses call the pages are requested one after the
\* other: while the call is under way exactly one performRequest is, for the
\* page after those parsed; a fetch is issued only when none is in flight; and
\* the request for page N + 1 is issued only when the request for page N has
\* returned a 2xx response, retries and waits included, and the body of page N
\* has been parsed and its items pushed.
C34_PagesSequential ==
    /\ []((lc.op = "listCourses" /\ lc.pc = "page") => AwaitsPage(lc.served + 1))
    /\ [][(lc'.op = "listCourses" /\ Issues) =>
            /\ rq.pc # "fetch"
            /\ lc'.pc = "page"
            /\ (lc'.served = lc.served /\ lc.op = "listCourses") => rq.pc = "wait"
            /\ lc'.served > lc.served =>
                  /\ lc'.served = lc.served + 1
                  /\ rq.pc = "returned"
                  /\ rq.outcomes[Len(rq.outcomes)].kind = "response"
                  /\ ok(rq.outcomes[Len(rq.outcomes)].status)
                  /\ lc.chain[lc'.served].form = "array"
                  /\ lc'.courses = lc.courses \o lc.chain[lc'.served].items
                  /\ rq'.attempts = 1]_vars

\* the third page is being fetched a second time, after the first page was
\* also retried
C34_Witness ==
    /\ lc.op = "listCourses" /\ lc.pc = "page"
    /\ lc.served = 2 /\ lc.failed = 1
    /\ rq.pc = "fetch" /\ rq.attempts = 2
    /\ rq.targetUrl.search = PageQuery(3)

\* the attempts of request r that ended aborted
AbortedAttempts(r) == {k \in 1..Len(r.outcomes) : r.outcomes[k].kind = "abort"}

\* C35: each attempt has its own timer and its own signal.  An attempt in
\* flight has its timer armed and its signal not aborted, whatever fired
\* before; an attempt ends aborted only when its own timer has fired; a timer
\* that fires changes nothing of another caller's request and nothing of the
\* attempts already recorded; and when performRequest has returned or raised,
\* or is not under way, no timer is armed.
C35_TimeoutPerAttempt ==
    /\ [](\A i \in Callers :
            LET r == callers[i]
            IN  /\ r.pc = "fetch" => r.timer = "armed" /\ ~r.aborted /\ r.attempts \notin r.fired
                /\ AbortedAttempts(r) \subseteq r.fired
                /\ r.pc \in {"idle", "returned", "raised"} => r.timer = "none")
    /\ [][\A i \in Callers :
            callers'[i].fired # callers[i].fired /\ callers[i].pc # "idle" /\ callers'[i].pc # "idle" =>
                /\ \A o \in Callers \ {i} : callers'[o] = callers[o]
                /\ callers'[i].fired = callers[i].fired \cup {callers[i].attempts}
                /\ callers'[i].attempts = callers[i].attempts
                /\ SubSeq(callers'[i].outcomes, 1, Len(callers[i].outcomes)) = callers[i].outcomes]_vars

\* the timer of the first attempt of one caller fired during its delay, its
\* second attempt is in flight, and so is the first attempt of the other
\* caller
C35_Witness ==
    /\ callers["first"].pc = "fetch" /\ callers["first"].attempts = 2
    /\ callers["first"].fired = {1}
    /\ callers["first"].outcomes[1].kind = "response"
    /\ callers["second"].pc = "fetch" /\ callers["second"].attempts = 1
    /\ callers["second"].fired = {}

\* C36: sseClients holds exactly the streams that were opened and are not yet
\* closed, each with its one heartbeat timer armed; a stream the client has
\* closed or the server has ended is out of the set with its timer cleared;
\* and once the server is closed no stream is open and the set is empty,
\* whatever the order of connects, disconnects and the close.
C36_RegistryInvariant ==
    /\ \A c \in Clients :
          LET s == sse.streams[c]
          IN  /\ s.member <=> s.state = "open"
              /\ s.member => s.heartbeat = "armed"
              /\ s.state = "none" => s.heartbeat = "none"
              /\ s.state \in {"disconnected", "ended"} => s.heartbeat = "cleared"
    /\ (last.op = "stream" /\ last.http.status = 200 /\ sse.listening
            /\ sse.streams[last.client].state # "disconnected")
          => sse.streams[last.client].member
    /\ ~sse.listening =>
          \A c \in Clients : ~sse.streams[c].member /\ sse.streams[c].state # "open"

\* the server is closed with one stream open, after the other client has come
\* and gone
C36_Witness ==
    /\ ~sse.listening
    /\ sse.streams["10.0.0.2"].state = "ended" /\ Len(sse.streams["10.0.0.2"].writes) = 2
    /\ sse.streams["10.0.0.1"].state = "disconnected"
    /\ sse.streams["10.0.0.1"].writes[1].t < sse.streams["10.0.0.2"].writes[1].t
    /\ \A c \in Clients : ~sse.streams[c].member /\ sse.streams[c].heartbeat = "cleared"

\* C37: every request the client issues, the follow-up requests of listCourses
\* included, goes to the configured host under the API prefix, whatever host
\* and path the next link of the upstream names.
C37_UpstreamHostFixed ==
    rq.pc # "idle" =>
        /\ rq.targetUrl.host = baseUrl.host
        /\ Len(rq.targetUrl.pathname) >= Len(baseUrl.pathname)
        /\ SubSeq(rq.targetUrl.pathname, 1, Len(baseUrl.pathname)) = baseUrl.pathname

\* C38: listCourses returns only when every page of the chain was fetched and
\* parsed, and then all their items; when the request of a page is given up
\* (a status that is not retried, the budget used up) or a page's body cannot
\* be parsed or spread, listCourses raises: the CanvasHttpError of the
\* request as it is, or the parsing error; nothing is returned, and no fetch
\* is made after the one that failed.
C38_AllOrNothing ==
    /\ [](lc.op = "listCourses" =>
            /\ lc.pc = "returned" =>
                  /\ lc.thrown = "none"
                  /\ lc.served = Len(lc.chain) /\ ChainOfPages(lc.chain)
                  /\ lc.courses = Flatten(lc.chain)
            /\ lc.pc = "raised" =>
                  /\ lc.thrown \in {"CanvasHttpError", "Error", "TypeError"}
                  /\ rq.pc = "idle"
                  /\ lc.calls = lc.served + lc.failed
                  /\ lc.thrown = "CanvasHttpError" => lc.served < Len(lc.chain)
                  /\ lc.thrown # "CanvasHttpError" => ~ChainOfPages(SubSeq(lc.chain, 1, lc.served)))
    /\ [][/\ (lc.op = "listCourses" /\ lc.pc = "page" /\ rq.pc = "raised") =>
                /\ lc'.pc = "raised" /\ lc'.thrown = "CanvasHttpError"
                /\ lc'.calls = lc.calls + rq.attempts
                /\ rq'.pc = "idle"
          /\ (lc.op = "listCourses" /\ lc.pc = "page" /\ rq.pc = "returned"
                  /\ lc.chain[lc.served + 1].form # "array") =>
                /\ lc'.pc = "raised" /\ lc'.thrown \in {"Error", "TypeError"}
                /\ rq'.pc = "idle"
          /\ (lc.op = "listCourses" /\ lc.pc = "raised") => lc'.pc = "idle" /\ rq' = rq]_vars

\* two pages were read, with items, when the third is refused with 404
C38_Witness ==
    /\ lc.op = "listCourses" /\ lc.pc = "raised" /\ lc.thrown = "CanvasHttpError"
    /\ lc.served = 2 /\ Len(lc.chain) = 3
    /\ lc.courses = <<2, 1, 1>>
    /\ lc.failed = 1 /\ lc.calls = 3

\* C39: where every fetch settles and every delay elapses, performRequest
\* makes at most maxRetries + 1 attempts and then returns or raises; against
\* an upstream whose chain of pages ends, or fails for good, listCourses
\* returns or raises; and against an upstream whose page names itself as the
\* next, listCourses never returns: every page it parses is followed by one
\* more request, and it ends only if a request or a body fails.
C39_Termination ==
    /\ [](rq.attempts <= rq.maxRetries + 1)
    /\ (rq.pc \in {"fetch", "wait"}) ~> (rq.pc \in {"returned", "raised"})
    /\ (lc.pc = "page" /\ lc.style # "self") ~> (lc.pc \in {"returned", "raised"})
    /\ []((lc.op = "listCourses" /\ lc.style = "self") => lc.pc # "returned")
    /\ [][(lc.style = "self" /\ lc'.served > lc.served) =>
              \/ Issues /\ lc'.pc = "page" /\ rq'.path = lc'.nextUrl.path
              \/ lc'.pc = "raised" /\ lc.chain[1].form # "array"]_vars

\* the one page of the upstream has been parsed MaxPages times, each time
\* after a retry, and is asked for again
C39_Witness ==
    /\ lc.op = "listCourses" /\ lc.style = "self" /\ lc.pc = "page"
    /\ Len(lc.chain) = 1
    /\ lc.served = MaxPages /\ lc.failed = MaxPages
    /\ rq.pc = "fetch"

====
